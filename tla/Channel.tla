------------------------------- MODULE Channel -------------------------------
(***************************************************************************)
(* What guest and host achieve together: the characters of a message reach *)
(* the host's console one by one, in order, none lost and none twice, and  *)
(* the host stops after the last one.                                      *)
(***************************************************************************)
EXTENDS Sequences, Naturals

CONSTANT Message

VARIABLES output, stopped

channelVars == <<output, stopped>>

ChannelInit == output = <<>> /\ stopped = FALSE

Deliver ==
  /\ stopped = FALSE
  /\ Len(output) < Len(Message)
  /\ output' = Append(output, Message[Len(output) + 1])
  /\ UNCHANGED stopped

StopAfterMessage ==
  /\ output = Message
  /\ stopped = FALSE /\ stopped' = TRUE
  /\ UNCHANGED output

ChannelNext == Deliver \/ StopAfterMessage
ChannelSafety == ChannelInit /\ [][ChannelNext]_channelVars
ChannelFairness == WF_channelVars(ChannelNext)
ChannelSpec == ChannelSafety /\ ChannelFairness
=============================================================================
