------------------------------ MODULE Inquiries ------------------------------
(***************************************************************************)
(* The inquiries a business receives (apps/inquiries) and the inbox in      *)
(* which its staff note how far each one has come: a handler reads the row, *)
(* and writes the status with both stamps, whatever happened to them        *)
(* between. What an inquiry says, and who sent it, is left out.             *)
(***************************************************************************)
CONSTANTS Inquiries,
          Staff,      \* handlers of the inbox
          NoReply     \* a handler at rest

VARIABLES inquiry,    \* inquiry[i]: its row
          reply       \* reply[h]: what h has read of an inquiry, and will write

inquiryVars == <<inquiry, reply>>

\* Every status but NEW and CONTACTED is "other"; the stamps are viewed_at and
\* contacted_at, set or null.
InquiryRow == [status : {"none", "new", "contacted", "other"},
               viewed : BOOLEAN, contacted : BOOLEAN]

NoInquiry == [status |-> "none", viewed |-> FALSE, contacted |-> FALSE]

\* create_inquiry, from the page of a lot or of a catalog.
CreateInquiry(i) ==
  /\ inquiry[i] = NoInquiry
  /\ inquiry' = [inquiry EXCEPT ![i].status = "new"]
  /\ reply' = reply

\* inquiry_update_status reads the row ...
BeginReply(h, i, status) ==
  /\ reply[h] = NoReply
  /\ inquiry[i] # NoInquiry
  /\ reply' = [reply EXCEPT ![h] = [of |-> i, status |-> status, read |-> inquiry[i]]]
  /\ inquiry' = inquiry

Stamped(read, status) ==
  [status    |-> status,
   viewed    |-> TRUE,
   contacted |-> read.contacted \/ status = "contacted"]

\* ... and writes the status and the stamps.
UpdateStatus(h) ==
  /\ reply[h] # NoReply
  /\ inquiry' = [inquiry EXCEPT ![reply[h].of] = Stamped(reply[h].read, reply[h].status)]
  /\ reply' = [reply EXCEPT ![h] = NoReply]

ReplyFails(h) ==
  /\ reply[h] # NoReply
  /\ reply' = [reply EXCEPT ![h] = NoReply]
  /\ inquiry' = inquiry

InquiryInit ==
  /\ inquiry = [i \in Inquiries |-> NoInquiry]
  /\ reply = [h \in Staff |-> NoReply]

Replying(h) ==
  \/ \E i \in Inquiries, status \in {"new", "contacted", "other"} : BeginReply(h, i, status)
  \/ UpdateStatus(h)
  \/ ReplyFails(h)

InquiryNext ==
  \/ \E i \in Inquiries : CreateInquiry(i)
  \/ \E h \in Staff : Replying(h)

InquirySpec == InquiryInit /\ [][InquiryNext]_inquiryVars
==============================================================================
