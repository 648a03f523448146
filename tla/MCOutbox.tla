------------------------------ MODULE MCOutbox ------------------------------
(* Model-checking instance of Outbox.                                       *)
EXTENDS Outbox

CONSTANTS c1, c2
OneChat  == {c1}
TwoChats == {c1, c2}
Sends    == {"send_message"}
Updates  == {"update_message"}
Uploads  == {"file_upload"}
=============================================================================
