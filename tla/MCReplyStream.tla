--------------------------- MODULE MCReplyStream ---------------------------
(* A request served by the worker and one served by another provider share *)
(* one slot; the queue is shorter than a reply.                            *)
EXTENDS ReplyStream, TLC
CONSTANTS viaWorker, direct
MCRequests == {viaWorker, direct}
MCPumped   == {viaWorker}
=============================================================================
