---------------------------- MODULE MCEventLoop ----------------------------
(* Instances of EventLoop for TLC. *)
EXTENDS EventLoop, TLC

\* INIT and SENDFILE have a payload; the fourth stands for those that only get a reply.
MCPayloadSize ==
  "init" :> 1 @@ "crash" :> 0 @@ "sendfile" :> 1 @@ "routing_table" :> 0
=============================================================================
