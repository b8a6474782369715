---------------------------- MODULE MCLiveWorker ----------------------------
(***************************************************************************)
(* Small instances of LiveWorker for TLC.                                  *)
(***************************************************************************)
EXTENDS LiveWorker

\* The host's choices in the runs about the listener...
ListenerOps == {"messages.listen", "messages.stop", "shutdown"}
\* ...and in the runs about everything else.
AllOps == Requests \cup {"zeroId", "garbage"}

NoExport == {0}
SomeExports == {0, 1}

None == {}
FirstOffTopic == {<<1, 1>>}
FirstOversized == {<<1, 1>>}
=============================================================================
