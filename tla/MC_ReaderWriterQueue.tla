------------------------ MODULE MC_ReaderWriterQueue ------------------------
(* ReaderWriterQueue on small queues. *)
EXTENDS ReaderWriterQueueProofs
=============================================================================
