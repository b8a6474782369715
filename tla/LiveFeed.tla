------------------------------ MODULE LiveFeed ------------------------------
(***************************************************************************)
(* What the worker promises the host about live messages, with no threads, *)
(* locks or pending lists: while the feed is on, the messages of every     *)
(* chat arrive one by one, on topic, in order, with nothing skipped since  *)
(* the point the listen was accepted for; while it is off, none arrive.    *)
(* A stop turns it off, and so does the report that its polling failed.    *)
(* Nothing is promised any more once such a report came too late, when the *)
(* next listen was accepted already, or a listen was answered twice.       *)
(***************************************************************************)
EXTENDS Naturals

CONSTANTS Chats, MaxMsgs, OffTopic

VARIABLES
    posted,  \* newest message id of each chat
    on,      \* the host holds an accepted listen it has not stopped
    sent,    \* newest message id of each chat given to the host since the last change
    void     \* a late report or a broken answer has disturbed the feed

feedVars == <<posted, on, sent, void>>

Nothing == [c \in Chats |-> 0]

Init == posted = Nothing /\ on = FALSE /\ sent = Nothing /\ void = FALSE

Post(c) ==
    /\ posted' = [posted EXCEPT ![c] = @ + 1]
    /\ UNCHANGED <<on, sent, void>>

\* The feed starts at what each chat had when the listener was prepared.
Accept ==
    /\ ~on
    /\ on' = TRUE
    /\ sent' \in [Chats -> 0..MaxMsgs]
    /\ \A c \in Chats : sent'[c] <= posted[c]
    /\ UNCHANGED <<posted, void>>

TurnOff ==
    /\ on
    /\ on' = FALSE
    /\ sent' = Nothing
    /\ UNCHANGED <<posted, void>>

Give(c) ==
    /\ on
    /\ \E n \in (sent[c] + 1)..posted[c] :
         /\ <<c, n>> \notin OffTopic
         /\ \A skipped \in (sent[c] + 1)..(n - 1) : <<c, skipped>> \in OffTopic
         /\ sent' = [sent EXCEPT ![c] = n]
    /\ UNCHANGED <<posted, on, void>>

\* The rest of the behaviour is free.
Disturb == void' = TRUE

Next ==
    \/ Disturb
    \/ /\ ~void
       /\ Accept \/ TurnOff \/ \E c \in Chats : Post(c) \/ Give(c)

Spec == Init /\ [][Next]_feedVars
=============================================================================
