------------------------------ MODULE MCXStream ------------------------------
(***************************************************************************)
(* XStream on small instances.  Two payloads tell a skipped or repeated    *)
(* delivery apart; the server sends too, so ACKs and timers of both        *)
(* directions interleave.                                                  *)
(***************************************************************************)
EXTENDS XStream

CONSTANTS ClientSends, ServerSends

SendBounds == [s \in {"client", "server"} |->
                  IF s = "client" THEN ClientSends ELSE ServerSends]

ServiceXIDs == {"SID_client", "SID_server"}
==============================================================================
