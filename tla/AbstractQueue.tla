----------------------------- MODULE AbstractQueue -----------------------------
(* What a message queue promises: a bounded first-in first-out channel that     *)
(* neither loses, nor repeats, nor reorders a message.                          *)
EXTENDS Naturals, Sequences

CONSTANTS
    Messages, Capacity,
    Nothing         \* what a receive has returned before the first one

VARIABLES
    contents,   \* messages sent and not yet received, oldest first
    delivered   \* what the last receive returned

channel == <<contents, delivered>>

ChannelInit == contents = <<>> /\ delivered = Nothing

Put(v) ==
    /\ Len(contents) < Capacity
    /\ contents' = Append(contents, v)
    /\ UNCHANGED delivered

Get ==
    /\ contents # <<>>
    /\ delivered' = Head(contents)
    /\ contents' = Tail(contents)

ChannelNext == Get \/ \E v \in Messages : Put(v)

ChannelSpec == ChannelInit /\ [][ChannelNext]_channel
===============================================================================
