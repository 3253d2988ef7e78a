------------------------------- MODULE MCLora -------------------------------
(* Short queues for TLC, and the power modes on and tx_only: sleep is tx_only without     *)
(* lora_send, so it adds no step of the radio or of the task.                            *)
EXTENDS Lora
=============================================================================
