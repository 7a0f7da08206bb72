--------------------------- MODULE MCQueueClients ---------------------------
(* Two producers and two consumers over a queue without limit and over     *)
(* queues of three and four places, which six items fill.                  *)
EXTENDS QueueClients
=============================================================================
