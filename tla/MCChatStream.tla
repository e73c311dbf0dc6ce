---------------------------- MODULE MCChatStream ----------------------------
(* ChatStream with short answers: see MCChatStream.cfg.                    *)
EXTENDS ChatStream
=============================================================================
