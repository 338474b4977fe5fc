------------------------------ MODULE Contacts ------------------------------
(***************************************************************************)
(* The contacts of one business (apps/contacts), statement by statement,    *)
(* next to the businesses they are linked to.                               *)
(*                                                                          *)
(* A contact may be linked to another business while that one is active.    *)
(* Before it writes, a request looks for another contact with the same      *)
(* link; between two requests the unique index decides. Each request writes *)
(* once, so its write and its commit are one step. Names, phones and notes  *)
(* are left out.                                                            *)
(***************************************************************************)
EXTENDS Businesses

CONSTANTS Contacts,   \* the contacts the business has or may yet add
          Self,       \* the business itself
          NoLink      \* linked_business is NULL

ASSUME ContactConstants ==
  /\ Self \in Businesses
  /\ NoLink \notin Businesses
  /\ NoRequest \notin [kind : {"add", "edit", "archive", "restore"},
                       contact : Contacts, link : Businesses \cup {NoLink}]

VARIABLE table        \* the committed rows, a function on the contacts there are

vars == <<tenancyVars, table>>

Partners == Businesses \ {Self}

ContactRow == [link : Partners \cup {NoLink}, is_active : BOOLEAN]

ContactRequest == [kind : {"add", "edit", "archive", "restore"},
                   contact : Contacts, link : Partners \cup {NoLink}]

SessionOK(s) ==
  \/ Idle(s)
  \/ pc[s] \in {"creating", "profile", "complete"} /\ req[s] \in RowRequest
  \/ /\ pc[s] \in {"checking", "inserting", "clearing", "locking", "stepping"}
     /\ req[s] \in WarehouseRequest
  \/ pc[s] \in {"validating", "writing", "flagging"} /\ req[s] \in ContactRequest

TypeOK ==
  /\ BusinessTypeOK
  /\ DOMAIN table \subseteq Contacts
  /\ table \in [DOMAIN table -> ContactRow]
  /\ \A s \in Sessions : SessionOK(s)

\* linkable_businesses: what the form offers.
Linkable == {b \in Partners : business[b].status = "active"}

\* Another contact than c, archived ones included, is linked to b.
Taken(c, b) == b # NoLink /\ \E d \in DOMAIN table \ {c} : table[d].link = b

BeginAdd(s, c, b) ==
  /\ business[Self].status # "none"
  /\ c \notin DOMAIN table
  /\ \A t \in Sessions :
       ~(pc[t] \in {"validating", "writing"} /\ req[t].kind = "add" /\ req[t].contact = c)
  /\ Arrive(s, [kind |-> "add", contact |-> c, link |-> b], "validating")
  /\ UNCHANGED <<shop, raced, table>>

BeginEdit(s, c, b) ==
  /\ c \in DOMAIN table
  /\ Arrive(s, [kind |-> "edit", contact |-> c, link |-> b], "validating")
  /\ UNCHANGED <<shop, raced, table>>

\* archive_contact and restore_contact: nothing to do if the row that was read
\* has the flag already.
BeginFlag(s, c, kind) ==
  /\ c \in DOMAIN table
  /\ table[c].is_active = (kind = "archive")
  /\ Arrive(s, [kind |-> kind, contact |-> c, link |-> NoLink], "flagging")
  /\ UNCHANGED <<shop, raced, table>>

\* _validate_link: the look for another contact with the same link.
ValidateLink(s) ==
  /\ pc[s] = "validating"
  /\ IF Taken(req[s].contact, req[s].link) THEN End(s) ELSE Goto(s, "writing") /\ req' = req
  /\ UNCHANGED <<shop, raced, table>>

\* The row of c after an edit: the flag is not among the columns it writes.
Edited(c, b) == [table[c] EXCEPT !.link = b]

\* FAULTY: no unique index.
FaultyWriteContact(s) ==
  LET c == req[s].contact
      b == req[s].link
  IN /\ pc[s] = "writing"
     /\ table' = [d \in DOMAIN table \cup {c} |->
                    IF d # c THEN table[d]
                    ELSE IF req[s].kind = "add" THEN [link |-> b, is_active |-> TRUE]
                    ELSE Edited(c, b)]
     /\ End(s)
     /\ UNCHANGED <<shop, raced>>

\* The insert or the update; an IntegrityError of the unique index becomes a
\* ContactError.
WriteContact(s) ==
  LET c == req[s].contact
      b == req[s].link
  IN /\ pc[s] = "writing"
     /\ table' = IF Taken(c, b) THEN table
                 ELSE [d \in DOMAIN table \cup {c} |->
                         IF d # c THEN table[d]
                         ELSE IF req[s].kind = "add" THEN [link |-> b, is_active |-> TRUE]
                         ELSE Edited(c, b)]
     /\ End(s)
     /\ UNCHANGED <<shop, raced>>

WriteFlag(s) ==
  /\ pc[s] = "flagging"
  /\ table' = [table EXCEPT ![req[s].contact].is_active = (req[s].kind = "restore")]
  /\ End(s)
  /\ UNCHANGED <<shop, raced>>

-----------------------------------------------------------------------------
Init == BusinessInit /\ table = <<>>

ContactHandler(s) ==
  \/ \E c \in Contacts :
       \/ \E b \in Linkable \cup {NoLink} : BeginAdd(s, c, b) \/ BeginEdit(s, c, b)
       \/ \E kind \in {"archive", "restore"} : BeginFlag(s, c, kind)
  \/ ValidateLink(s)
  \/ WriteContact(s)
  \/ WriteFlag(s)

Next ==
  \/ \E s \in Sessions : ContactHandler(s)
  \/ BusinessNext /\ table' = table

Spec == Init /\ [][Next]_vars

-----------------------------------------------------------------------------
(* Properties *)

\* A contact as the book has it.
BookRow(c) == IF c \notin DOMAIN table THEN [state |-> "absent", link |-> NoLink]
              ELSE [state |-> IF table[c].is_active THEN "active" ELSE "archived",
                    link  |-> table[c].link]
BookTable == [c \in Contacts |-> BookRow(c)]

Book == INSTANCE ContactBook WITH contact <- BookTable

\* The statements of the requests, in any interleaving, are the indivisible
\* changes of ContactBook: one contact per partner, links and flags that do not
\* overwrite each other.
ImplementsContactBook == Book!ContactsSpec
==============================================================================
