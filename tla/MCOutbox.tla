------------------------------ MODULE MCOutbox ------------------------------
(* Two statuses of one event, or a status and a document. *)
EXTENDS Outbox

MCRows == 1 .. 2
MCEvent == <<1, 1>>
MCDocument == <<1, 0>>
=============================================================================
