---------------------------- MODULE RcRemoteProps ----------------------------
(***************************************************************************)
(* What must be true of a remote whatever frames it hears.                 *)
(***************************************************************************)
EXTENDS RcRemote

RemotePcs == {"round", "send", "transmit", "listen", "return", "next", "delay"}

RemoteMessage == [senderID : Ids, type : RemoteTypes, x : Stick, y : Stick,
                  button : BOOLEAN]

\* The remotes' variables have values their declarations allow, the retry
\* counter stays within RETIRES and the delays within the longest one.
RemoteTypeOK ==
    /\ rpc \in [Remotes -> RemotePcs]
    /\ rmem \in [Remotes -> [state : RemoteStates, receive_ack : BOOLEAN,
                             car_type : CarTypes \cup RemoteTypes]]
    /\ remote_msg \in [Remotes -> RemoteMessage]
    /\ rnext \in [Remotes -> RemoteStates]
    /\ rtries \in [Remotes -> 0 .. RemoteRetries]
    /\ rwait \in [Remotes -> 0 .. RemoteTimeout \cup 0 .. AdvertTimeout \cup 0 .. DelayTime]
    /\ rlistening \in [Remotes -> BOOLEAN]

\* A remote takes a car for lost only after it has sent its message RETIRES
\* times and waited out the last delay, and while it waits it has an attempt
\* left or is at the last: no answer, and no round before, shortens that.
RetriesExhausted ==
    \A r \in Remotes :
        /\ rpc[r] = "return" /\ ~rmem[r].receive_ack => rtries[r] = RemoteRetries /\ rwait[r] = 0
        /\ rpc[r] = "transmit" => rtries[r] < RemoteRetries
=============================================================================
