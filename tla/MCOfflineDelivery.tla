-------------------------- MODULE MCOfflineDelivery --------------------------
(* Small instances of OfflineDelivery for TLC.                              *)
EXTENDS OfflineDelivery, TLC

CONSTANTS ann, eve, bob, dan, h1, h2

\* ann sends two messages to bob, eve one to dan.
MCMsgs == 1..3
MCSender == <<ann, ann, eve>>
MCReceiver == <<bob, bob, dan>>

\* LAB5 takes all ids from one counter.  The clients of LAB6 number their messages from
\* 1 on, with HELLO first and AUTH second, and its server's own records have ids from a
\* third counter: 3 is that of the first connect record in the shipped history.json.
MCMsgIds == 5 :> <<1, 2, 3>> @@ 6 :> <<3, 4, 3>>
MCServerIds == 5 :> {4} @@ 6 :> {3}

\* One handler for bob, one for dan.
MCNick == (h1 :> bob @@ h2 :> dan)
\* Picking by position is what SelectSeq does, on all short sequences.
ASSUME PickIsSelectSeq ==
    \A n \in 0..4 : \A q \in [1..n -> 1..3] :
        Pick(q, {i \in 1..n : q[i] # 2}) = SelectSeq(q, LAMBDA x : x # 2)
=============================================================================
