----------------------------- MODULE ContactBook -----------------------------
(***************************************************************************)
(* What the contacts of one business promise: a partner business is linked  *)
(* to one contact at most, and each change of a contact is one indivisible  *)
(* step that touches nothing else. Contacts implements it; Pricing, whose   *)
(* prices follow the links, is built on it.                                 *)
(***************************************************************************)
CONSTANTS Contacts,   \* the contacts the business has or may yet add
          Partners,   \* other businesses of the platform
          NoLink      \* linked_business is NULL

VARIABLE contact      \* contact[c]: its row

Row == [state : {"absent", "active", "archived"},   \* absent: not added yet
        link  : Partners \cup {NoLink}]

Present(c) == contact[c].state # "absent"

\* FAULTY: archived contacts do not count.
FaultyLinkFree(c, b) ==
  b = NoLink \/ \A d \in Contacts \ {c} : contact[d].link = b => contact[d].state # "active"

\* No contact other than c is linked to b.
LinkFree(c, b) == b = NoLink \/ \A d \in Contacts \ {c} : contact[d].link # b

ContactsInit == contact = [c \in Contacts |-> [state |-> "absent", link |-> NoLink]]

AddContact(c, b) ==
  /\ ~Present(c)
  /\ LinkFree(c, b)
  /\ contact' = [contact EXCEPT ![c] = [state |-> "active", link |-> b]]

\* The archive flag stays as it is.
EditContact(c, b) ==
  /\ Present(c)
  /\ LinkFree(c, b)
  /\ contact' = [contact EXCEPT ![c].link = b]

\* The link stays as it is.
ArchiveContact(c) ==
  /\ contact[c].state = "active"
  /\ contact' = [contact EXCEPT ![c].state = "archived"]

RestoreContact(c) ==
  /\ contact[c].state = "archived"
  /\ contact' = [contact EXCEPT ![c].state = "active"]

ContactStep(c) ==
  \/ \E b \in Partners \cup {NoLink} : AddContact(c, b) \/ EditContact(c, b)
  \/ ArchiveContact(c)
  \/ RestoreContact(c)

ContactsNext == \E c \in Contacts : ContactStep(c)

ContactsSpec == ContactsInit /\ [][ContactsNext]_contact
==============================================================================
