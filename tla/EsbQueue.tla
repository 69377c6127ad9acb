------------------------------ MODULE EsbQueue ------------------------------
(***************************************************************************)
(* What nrf_esb.h promises of reception: payloads come out in the order    *)
(* they came in, each once, unless the queue is full or is flushed.        *)
(***************************************************************************)
EXTENDS Naturals, Sequences

CONSTANTS Frames, Capacity

VARIABLES
    queue,      \* the payloads received and not read
    payload     \* the payload the application read last

queueVars == <<queue, payload>>

Arrive(frame) ==
    /\ Len(queue) < Capacity
    /\ queue' = Append(queue, frame)
    /\ UNCHANGED payload

Read ==
    /\ queue # <<>>
    /\ payload' = Head(queue)
    /\ queue' = Tail(queue)

Flush ==
    /\ queue' = <<>>
    /\ UNCHANGED payload

QueueNext == (\E frame \in Frames : Arrive(frame)) \/ Read \/ Flush

QueueSpec == queue = <<>> /\ payload \notin Frames /\ [][QueueNext]_queueVars
=============================================================================
