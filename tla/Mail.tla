-------------------------------- MODULE Mail --------------------------------
(***************************************************************************)
(* The mail server of the services.  A recipient that is blank, and an     *)
(* identifier that is not there, are "".                                   *)
(***************************************************************************)
EXTENDS Sequences

NormalizeRecipients(to) == SelectSeq(to, LAMBDA recipient : recipient # "")

\* What the send returns, the result its poller keeps and its details: one of
\* them has to name the message.
HasMessageId(candidates) == SelectSeq(candidates, LAMBDA id : id # "") # <<>>

\* A mail to nobody is refused; one without an identifier has been sent, and
\* is reported as an exception all the same.
SendEmail(to, candidates) ==
  LET sent == NormalizeRecipients(to) # <<>>
  IN  [sent |-> sent, failed |-> ~(sent /\ HasMessageId(candidates))]
=============================================================================
