---------------------------- MODULE SearchProofs ----------------------------
(***************************************************************************)
(* What a search reports, for every set of chains and of handles, and      *)
(* however the search ended.  The cellstore and the ports it reads behave  *)
(* as Trigger says, so its invariant holds here; what is added is that no  *)
(* drop is posted by chains that exit when they find a cell, and that      *)
(* nothing runs any more when the script asks for the list.                *)
(***************************************************************************)
EXTENDS Search, TLAPS, SequenceTheorems

GraphFacts == INSTANCE TriggerProofs

----------------------------------------------------------------------------
(* The flowgraph of a search is one that Trigger describes.                *)

(* The two names of a definition of Trigger mean the same.                 *)
LEMMA SameGraph ==
  /\ Graph!Message = GraphFacts!Message
  /\ Graph!Current = GraphFacts!Current
  /\ Graph!TypeOK <=> GraphFacts!TypeOK
  /\ \A k \in Chain, p \in Pmt :
       Graph!Publish(k, p) => GraphFacts!Publish(k, p)
  /\ Graph!StoreThread => GraphFacts!StoreThread
<1>1. Graph!Message = GraphFacts!Message
  BY DEF Graph!Message, GraphFacts!Message
<1>2. Graph!Current = GraphFacts!Current
  BY DEF Graph!Current, GraphFacts!Current, Graph!Tracked, GraphFacts!Tracked
<1>3. Graph!TypeOK <=> GraphFacts!TypeOK
  BY <1>1 DEF Graph!TypeOK, GraphFacts!TypeOK
<1>4. ASSUME NEW k \in Chain, NEW p \in Pmt, Graph!Publish(k, p)
      PROVE  GraphFacts!Publish(k, p)
  BY <1>2, <1>4
     DEF Graph!Publish, GraphFacts!Publish, Graph!Tracked, GraphFacts!Tracked,
         Graph!Says, GraphFacts!Says, Graph!Fresh, GraphFacts!Fresh, Graph!InUse, GraphFacts!InUse,
         Graph!ToSet, GraphFacts!ToSet
<1>5. Graph!StoreThread => GraphFacts!StoreThread
  BY DEF Graph!StoreThread, GraphFacts!StoreThread,
         Graph!TrackCell, GraphFacts!TrackCell, Graph!DropCell, GraphFacts!DropCell,
         Graph!NextPort, GraphFacts!NextPort, Graph!ToSet, GraphFacts!ToSet,
         Graph!Store!TrackCell, GraphFacts!Store!TrackCell,
         Graph!Store!DropCell, GraphFacts!Store!DropCell,
         Graph!Store!NextPort, GraphFacts!Store!NextPort,
         Graph!Store!InOrder, GraphFacts!Store!InOrder,
         Graph!Store!Same, GraphFacts!Store!Same,
         Graph!Store!Cardinality, GraphFacts!Store!Cardinality,
         Graph!Store!Bijection, GraphFacts!Store!Bijection,
         Graph!Store!Injection, GraphFacts!Store!Injection,
         Graph!Store!Surjection, GraphFacts!Store!Surjection,
         Graph!Store!IsInjective, GraphFacts!Store!IsInjective
<1> QED BY <1>1, <1>2, <1>3, <1>4, <1>5

(* Every step of a search is one of the flowgraph, or none for it.         *)
LEMMA GraphBehaves == Spec => GraphFacts!Spec
<1>1. Init => GraphFacts!Init
  BY DEF Init, Graph!Init, GraphFacts!Init, Graph!Store!Init, GraphFacts!Store!Init
<1>2. [Next]_vars => [GraphFacts!Next]_(GraphFacts!vars)
  <2> SUFFICES ASSUME [Next]_vars
               PROVE  [GraphFacts!Next]_(GraphFacts!vars)
    OBVIOUS
  <2>1. ASSUME NEW k \in Chain, NEW p \in Pmt, Find(k, p)
        PROVE  GraphFacts!Next
    <3>1. GraphFacts!Publish(k, p)
      BY <2>1, SameGraph DEF Find
    <3> QED BY <3>1 DEF GraphFacts!Next
  <2>2. StoreWork => GraphFacts!Next
    BY SameGraph DEF StoreWork, GraphFacts!Next
  <2>3. CASE UNCHANGED graphVars
    BY <2>3 DEF graphVars, GraphFacts!vars, GraphFacts!storeVars
  <2>4. /\ Main \/ EndInput \/ EndStore => UNCHANGED graphVars
        /\ \A k \in Chain : Throw(k) \/ EndChain(k) => UNCHANGED graphVars
        /\ UNCHANGED vars => UNCHANGED graphVars
    BY DEF Main, TimeOut, Wait, AskTracking, Report, EndInput, EndStore,
           Throw, EndChain, vars
  <2> QED BY <2>1, <2>2, <2>3, <2>4 DEF Next, ChainStep
<1> QED BY <1>1, <1>2, PTL DEF Spec, GraphFacts!Spec

(* So the invariant of the cellstore and its ports holds during a search.  *)
LEMMA GraphInv == Spec => []GraphFacts!IInv
BY GraphBehaves, GraphFacts!Inductive, PTL

----------------------------------------------------------------------------
(* The inductive invariant of the script.                                  *)

(* Chains that exit when they find a cell never post on the drop port.     *)
NothingWithdrawn == drop_port = <<>> /\ overtaken = {}

(* When the script has waited, every thread that could change the list has *)
(* ended.                                                                  *)
NothingRuns ==
  pc \in {"asking", "listing", "done"} =>
    store = "ended" /\ \A k \in Chain : ~Running(k)

(* The types of what Search adds to Trigger.                               *)
ScriptTypeOK ==
  /\ args \in [repeat : BOOLEAN, cut_off : BOOLEAN, time_out : BOOLEAN]
  /\ pc \in {"timing", "waiting", "asking", "listing", "done"}
  /\ stopped \in BOOLEAN /\ tracking \in BOOLEAN
  /\ results \in Seq(GraphFacts!Message)
  /\ input \in {"flowing", "ended"} /\ store \in {"running", "ended"}
  /\ chain \in [Chain -> {"running", "ended"}]
  /\ exited \subseteq Chain /\ failed \subseteq Chain

(* The inductive invariant, together with that of Trigger.                 *)
IInv == ScriptTypeOK /\ NothingWithdrawn /\ NothingRuns /\ ReportIsFinal

(* The script is past tb.start(): nothing is posted and nothing is asked.  *)
LEMMA InitIInv == Init => IInv
<1> SUFFICES ASSUME Init PROVE IInv
  OBVIOUS
<1>1. pc \in {"timing", "waiting"}
  BY DEF Init
<1>2. ScriptTypeOK
  <2>1. /\ args \in [repeat : BOOLEAN, cut_off : BOOLEAN, time_out : BOOLEAN]
        /\ stopped = FALSE /\ tracking = FALSE /\ results = <<>>
        /\ input = "flowing" /\ store = "running"
        /\ exited = {} /\ failed = {}
    BY DEF Init
  <2>2. chain \in [Chain -> {"running", "ended"}]
    BY DEF Init
  <2>3. <<>> \in Seq(GraphFacts!Message)
    OBVIOUS
  <2> QED BY <1>1, <2>1, <2>2, <2>3 DEF ScriptTypeOK
<1>3. NothingWithdrawn
  BY DEF Init, Graph!Init, Graph!Store!Init, NothingWithdrawn
<1>4. NothingRuns /\ ReportIsFinal
  BY <1>1 DEF NothingRuns, ReportIsFinal
<1> QED BY <1>2, <1>3, <1>4 DEF IInv

(* While anything runs, the script has not asked for the list yet.         *)
LEMMA GraphStep ==
  ASSUME IInv, UNCHANGED mainVars, ScriptTypeOK', NothingWithdrawn',
         \/ UNCHANGED <<d_cells, store, chain>>
         \/ store = "running"
         \/ \E k \in Chain : Running(k)
  PROVE  IInv'
<1>1. pc' = pc /\ tracking' = tracking /\ results' = results
  BY DEF mainVars
<1>2. CASE UNCHANGED <<d_cells, store, chain>>
  BY <1>1, <1>2 DEF IInv, NothingRuns, Running, ReportIsFinal
<1>3. CASE store = "running" \/ \E k \in Chain : Running(k)
  <2>1. pc \notin {"asking", "listing", "done"}
    BY <1>3 DEF IInv, NothingRuns
  <2> QED BY <1>1, <2>1 DEF IInv, NothingRuns, ReportIsFinal
<1> QED BY <1>2, <1>3

(* Every step of the flowgraph and of the script preserves the invariant.  *)
LEMMA NextIInv == IInv /\ GraphFacts!IInv /\ [Next]_vars => IInv'
<1> SUFFICES ASSUME IInv, GraphFacts!IInv, [Next]_vars PROVE IInv'
  OBVIOUS
<1> USE DEF GraphFacts!Message
<1>1. ASSUME NEW k \in Chain, NEW p \in Pmt, Find(k, p) PROVE IInv'
  <2>1. /\ UNCHANGED mainVars /\ Running(k)
        /\ drop_port' = drop_port /\ overtaken' \subseteq overtaken
    BY <1>1 DEF Find, Graph!Publish
  <2>2. ScriptTypeOK'
    BY <1>1 DEF Find, IInv, ScriptTypeOK, mainVars
  <2>3. NothingWithdrawn'
    BY <2>1 DEF IInv, NothingWithdrawn
  <2> QED BY <2>1, <2>2, <2>3, GraphStep
<1>2. ASSUME NEW k \in Chain, Throw(k) \/ EndChain(k) PROVE IInv'
  <2>1. UNCHANGED mainVars /\ Running(k) /\ UNCHANGED graphVars
    BY <1>2 DEF Throw, EndChain
  <2>2. ScriptTypeOK'
    BY <1>2 DEF Throw, EndChain, IInv, ScriptTypeOK, mainVars
  <2>3. NothingWithdrawn'
    BY <2>1 DEF IInv, NothingWithdrawn, graphVars
  <2> QED BY <2>1, <2>2, <2>3, GraphStep
<1>3. ASSUME EndInput PROVE IInv'
  <2>1. /\ UNCHANGED mainVars /\ UNCHANGED graphVars
        /\ UNCHANGED <<d_cells, store, chain>>
    BY <1>3 DEF EndInput, graphVars, chainVars
  <2>2. ScriptTypeOK'
    BY <1>3 DEF EndInput, IInv, ScriptTypeOK, mainVars, chainVars
  <2>3. NothingWithdrawn'
    BY <2>1 DEF IInv, NothingWithdrawn, graphVars
  <2> QED BY <2>1, <2>2, <2>3, GraphStep
<1>4. ASSUME StoreWork PROVE IInv'
  <2>1. /\ UNCHANGED mainVars /\ store = "running"
        /\ drop_port' = drop_port /\ overtaken' = overtaken
    BY <1>4 DEF StoreWork, IInv, NothingWithdrawn, Graph!StoreThread,
                Graph!TrackCell, Graph!DropCell, Graph!NextPort,
                Graph!Store!TrackCell, Graph!Store!DropCell, Graph!Store!NextPort
  <2>2. ScriptTypeOK'
    BY <1>4 DEF StoreWork, IInv, ScriptTypeOK, mainVars, chainVars
  <2>3. NothingWithdrawn'
    BY <2>1 DEF IInv, NothingWithdrawn
  <2> QED BY <2>1, <2>2, <2>3, GraphStep
<1>5. ASSUME EndStore PROVE IInv'
  <2>1. UNCHANGED mainVars /\ store = "running" /\ UNCHANGED graphVars
    BY <1>5 DEF EndStore
  <2>2. ScriptTypeOK'
    BY <1>5 DEF EndStore, IInv, ScriptTypeOK, mainVars, chainVars
  <2>3. NothingWithdrawn'
    BY <2>1 DEF IInv, NothingWithdrawn, graphVars
  <2> QED BY <2>1, <2>2, <2>3, GraphStep
<1>6. ASSUME TimeOut PROVE IInv'
  <2>1. ScriptTypeOK'
    BY <1>6 DEF TimeOut, IInv, ScriptTypeOK, chainVars
  <2>2. NothingWithdrawn' /\ NothingRuns' /\ ReportIsFinal'
    BY <1>6 DEF TimeOut, IInv, NothingWithdrawn, NothingRuns, ReportIsFinal, graphVars
  <2> QED BY <2>1, <2>2 DEF IInv
<1>7. ASSUME Wait PROVE IInv'
  <2>1. ScriptTypeOK'
    BY <1>7 DEF Wait, IInv, ScriptTypeOK, chainVars
  <2>2. NothingWithdrawn' /\ ReportIsFinal'
    BY <1>7 DEF Wait, IInv, NothingWithdrawn, ReportIsFinal, graphVars
  <2>3. NothingRuns'
    BY <1>7 DEF Wait, GraphEnded, NothingRuns, Running, chainVars
  <2> QED BY <2>1, <2>2, <2>3 DEF IInv
<1>8. ASSUME AskTracking PROVE IInv'
  <2>1. ScriptTypeOK'
    BY <1>8 DEF AskTracking, IInv, ScriptTypeOK, chainVars
  <2>2. NothingWithdrawn' /\ ReportIsFinal'
    BY <1>8 DEF AskTracking, IInv, NothingWithdrawn, ReportIsFinal, graphVars
  <2>3. NothingRuns'
    BY <1>8 DEF AskTracking, IInv, NothingRuns, Running, chainVars
  <2> QED BY <2>1, <2>2, <2>3 DEF IInv
<1>9. ASSUME Report PROVE IInv'
  <2>1. results' = d_cells /\ tracking' = tracking /\ d_cells' = d_cells
    BY <1>9 DEF Report, IInv, ReportIsFinal, graphVars
  <2>2. ScriptTypeOK'
    BY <1>9, <2>1 DEF Report, IInv, ScriptTypeOK, chainVars, GraphFacts!IInv,
                      GraphFacts!TypeOK
  <2>3. NothingWithdrawn' /\ ReportIsFinal'
    BY <1>9, <2>1 DEF Report, IInv, NothingWithdrawn, ReportIsFinal, graphVars
  <2>4. NothingRuns'
    BY <1>9 DEF Report, IInv, NothingRuns, Running, chainVars
  <2> QED BY <2>2, <2>3, <2>4 DEF IInv
<1>10. ASSUME UNCHANGED vars PROVE IInv'
  <2>1. /\ UNCHANGED mainVars /\ UNCHANGED graphVars
        /\ UNCHANGED <<d_cells, store, chain>>
    BY <1>10 DEF vars, graphVars, chainVars
  <2>2. ScriptTypeOK' /\ NothingWithdrawn'
    BY <1>10 DEF vars, mainVars, chainVars, graphVars, IInv, ScriptTypeOK, NothingWithdrawn
  <2> QED BY <2>1, <2>2, GraphStep
<1> QED BY <1>1, <1>2, <1>3, <1>4, <1>5, <1>6, <1>7, <1>8, <1>9, <1>10
           DEF Next, Main, ChainStep

(* The script and the flowgraph it runs are always in a state so described.*)
THEOREM Inductive == Spec => [](IInv /\ GraphFacts!IInv)
BY InitIInv, NextIInv, GraphInv, PTL DEF Spec

----------------------------------------------------------------------------
(* The properties of the run, for every set of chains and of handles.      *)

(* Type correctness: what is reported are messages the mib blocks posted.  *)
THEOREM TypeCorrect == Spec => []TypeOK
<1>1. IInv /\ GraphFacts!IInv => TypeOK
  BY SameGraph DEF IInv, ScriptTypeOK, GraphFacts!IInv, TypeOK
<1> QED BY Inductive, <1>1, PTL

(* tracking() and cells() are answered by the same list, and nothing is    *)
(* added behind the report, however the search ended.                      *)
THEOREM ReportStands == Spec => []ReportIsFinal
<1>1. IInv => ReportIsFinal
  BY DEF IInv
<1> QED BY Inductive, <1>1, PTL

(* A cell a chain exited with is reported, once, or was left waiting when  *)
(* the cellstore ended; the report has no other cell.                      *)
THEOREM ReportIsAccounted == Spec => []ReportAccountsForAll
<1>1. IInv /\ GraphFacts!IInv => ReportAccountsForAll
  <2> SUFFICES ASSUME IInv, GraphFacts!IInv, pc = "done"
               PROVE  /\ \A c \in Graph!Current : Graph!OnceIn(c, results \o track_port)
                      /\ ToSet(results) \subseteq Graph!Current
    BY DEF ReportAccountsForAll
  <2>1. results = d_cells
    BY DEF IInv, ReportIsFinal
  <2>2. ASSUME NEW c \in Graph!Current
        PROVE  Graph!OnceIn(c, results \o track_port)
    BY <2>1, SameGraph
       DEF GraphFacts!IInv, GraphFacts!CurrentIsStoredOnce, GraphFacts!stored,
           GraphFacts!OnceIn, Graph!OnceIn
  <2>3. ToSet(d_cells) \subseteq Graph!Current
    <3>1. GraphFacts!ToSet(d_cells) \subseteq GraphFacts!ToSet(GraphFacts!stored)
      BY GraphFacts!InvTypes
    <3>2. GraphFacts!ToSet(drop_port) = {}
      BY DEF GraphFacts!ToSet, IInv, NothingWithdrawn
    <3>3. GraphFacts!ToSet(d_cells) \subseteq GraphFacts!Current
      BY <3>1, <3>2 DEF GraphFacts!IInv, GraphFacts!LeftoversAreKnown,
                        IInv, NothingWithdrawn
    <3> QED BY <3>3, SameGraph DEF ToSet, GraphFacts!ToSet
  <2> QED BY <2>1, <2>2, <2>3
<1> QED BY Inductive, <1>1, PTL

----------------------------------------------------------------------------
(* A search implements SearchContract.                                     *)

(* A chain that finds a cell is the first of its identity: what is stored  *)
(* is still tracked, since nothing is withdrawn, and it tracked nothing.   *)
LEMMA FindFinds ==
  ASSUME IInv, GraphFacts!IInv, NEW k \in Chain, NEW p \in Pmt, Find(k, p)
  PROVE  Contract!Find([pmt |-> p, id |-> k])
<1> DEFINE c == [pmt |-> p, id |-> k]
<1>1. c \in GraphFacts!Message /\ c.id = k
  BY DEF GraphFacts!Message
<1>2. /\ ~GraphFacts!Tracked(k) /\ pc' = pc /\ results' = results
      /\ track_port' = Append(track_port, c) /\ d_cells' = d_cells
  BY DEF Find, Graph!Publish, mainVars, Graph!Tracked, GraphFacts!Tracked
<1> HIDE DEF c
<1>3. pc # "done"
  BY DEF Find, IInv, NothingRuns
<1>4. ASSUME NEW i \in DOMAIN Graph!stored PROVE Graph!stored[i].id # c.id
  <2>1. Graph!stored = GraphFacts!stored
    BY DEF Graph!stored, GraphFacts!stored
  <2>2. GraphFacts!stored[i] \in GraphFacts!ToSet(GraphFacts!stored)
    BY <1>4, <2>1, GraphFacts!InvTypes
  <2>3. GraphFacts!ToSet(drop_port) = {} /\ overtaken = {}
    BY DEF GraphFacts!ToSet, IInv, NothingWithdrawn
  <2>4. GraphFacts!stored[i] \in GraphFacts!Current
    BY <2>2, <2>3 DEF GraphFacts!IInv, GraphFacts!LeftoversAreKnown
  <2>5. GraphFacts!Tracked(GraphFacts!stored[i].id)
    BY <2>4, GraphFacts!InvTypes
  <2> QED BY <1>1, <1>2, <2>1, <2>5
<1>5. Graph!stored' = Append(Graph!stored, c)
  <2>1. /\ d_cells \in Seq(GraphFacts!Message)
        /\ track_port \in Seq(GraphFacts!Message)
    BY DEF GraphFacts!IInv, GraphFacts!TypeOK
  <2>2. Append(track_port, c) = track_port \o <<c>>
    BY <1>1, <2>1, AppendIsConcat
  <2>3. Append(d_cells \o track_port, c) = (d_cells \o track_port) \o <<c>>
    <3>1. d_cells \o track_port \in Seq(GraphFacts!Message)
      BY <2>1, ConcatProperties
    <3> QED BY <1>1, <3>1, AppendIsConcat
  <2>4. d_cells \o (track_port \o <<c>>) = (d_cells \o track_port) \o <<c>>
    BY <1>1, <2>1, ConcatAssociative
  <2> QED BY <1>2, <2>2, <2>3, <2>4 DEF Graph!stored
<1>6. Contract!Find(c)
  BY <1>2, <1>3, <1>4, <1>5 DEF Contract!Find
<1> QED BY <1>6 DEF c

(* The cellstore only moves what was found from its port to its list.      *)
LEMMA StoreKeepsFound ==
  ASSUME IInv, GraphFacts!IInv, StoreWork
  PROVE  Graph!stored' = Graph!stored
<1>1. /\ d_cells \in Seq(GraphFacts!Message)
      /\ track_port \in Seq(GraphFacts!Message)
  BY DEF GraphFacts!IInv, GraphFacts!TypeOK
<1>2. CASE Graph!TrackCell
  <2>1. /\ track_port # <<>> /\ track_port' = Tail(track_port)
        /\ d_cells' = Append(d_cells, Head(track_port))
    BY <1>2 DEF Graph!TrackCell, Graph!Store!TrackCell
  <2>2. Append(d_cells, Head(track_port)) \o Tail(track_port) = d_cells \o track_port
    BY <1>1, <2>1, GraphFacts!MoveHead
  <2> QED BY <2>1, <2>2 DEF Graph!stored
<1>3. CASE Graph!NextPort
  BY <1>3 DEF Graph!NextPort, Graph!Store!NextPort, Graph!stored
<1>4. ~Graph!DropCell
  BY DEF Graph!DropCell, Graph!Store!DropCell, IInv, NothingWithdrawn
<1> QED BY <1>2, <1>3, <1>4 DEF StoreWork, Graph!StoreThread

(* The list is the part of what was found that the cellstore has handled.  *)
LEMMA ReportReports ==
  ASSUME IInv, GraphFacts!IInv, Report
  PROVE  Contract!Report
<1>1. /\ pc = "listing" /\ pc' = "done"
      /\ d_cells' = d_cells /\ track_port' = track_port
  BY DEF Report, graphVars
<1>2. results' = d_cells
  BY DEF Report, IInv, ReportIsFinal
<1>3. /\ d_cells \in Seq(GraphFacts!Message)
      /\ track_port \in Seq(GraphFacts!Message)
  BY DEF GraphFacts!IInv, GraphFacts!TypeOK
<1> DEFINE n == Len(d_cells)
           s == d_cells \o track_port
<1>4. /\ n \in Nat /\ Len(track_port) \in Nat
      /\ Len(s) = n + Len(track_port) /\ s \in Seq(GraphFacts!Message)
      /\ \A i \in 1 .. n : s[i] = d_cells[i]
  BY <1>3, LenProperties, ConcatProperties
<1> HIDE DEF s
<1>5. SubSeq(s, 1, n) = d_cells
  <2>1. \A i \in 1 .. n : s[i] \in GraphFacts!Message
    BY <1>3, <1>4, ElementOfSeq
  <2>2. /\ SubSeq(s, 1, n) \in Seq(GraphFacts!Message)
        /\ Len(SubSeq(s, 1, n)) = IF 1 <= n THEN n - 1 + 1 ELSE 0
        /\ \A i \in 1 .. n - 1 + 1 : SubSeq(s, 1, n)[i] = s[1 + i - 1]
    BY <1>4, <2>1, SubSeqProperties
  <2>3. Len(SubSeq(s, 1, n)) = n
    BY <1>4, <2>2
  <2>4. \A i \in 1 .. n : SubSeq(s, 1, n)[i] = d_cells[i]
    BY <1>4, <2>2
  <2> QED BY <1>3, <2>2, <2>3, <2>4, SeqEqual
<1>6. n \in 0 .. Len(s)
  BY <1>4
<1>7. Graph!stored = s /\ Graph!stored' = s
  BY <1>1 DEF Graph!stored, s
<1> HIDE DEF n
<1>8. \E m \in 0 .. Len(Graph!stored) : <<d_cells>> = <<SubSeq(Graph!stored, 1, m)>>
  BY <1>5, <1>6, <1>7
<1> QED BY <1>1, <1>2, <1>7, <1>8 DEF Contract!Report

(* A search, with its threads that end in any order, implements the report *)
(* of SearchContract: a part of what was found, from the first cell on.    *)
THEOREM Refinement == Spec => ReportContract
<1>1. Init => Contract!Init
  BY DEF Init, Graph!Init, Graph!Store!Init, Graph!stored, Contract!Init, Timed
<1>2. IInv /\ GraphFacts!IInv /\ [Next]_vars
        => [Contract!Next]_(Contract!contractVars)
  <2> SUFFICES ASSUME IInv, GraphFacts!IInv, [Next]_vars
               PROVE  Contract!Next \/ UNCHANGED Contract!contractVars
    OBVIOUS
  <2>1. ASSUME NEW k \in Chain, NEW p \in Pmt, Find(k, p) PROVE Contract!Next
    <3>1. [pmt |-> p, id |-> k] \in Graph!Message
      BY DEF Graph!Message
    <3> QED BY <2>1, <3>1, FindFinds DEF Contract!Next
  <2>2. CASE Report
    BY <2>2, ReportReports DEF Contract!Next
  <2>3. ASSUME Graph!stored' = Graph!stored, results' = results,
               pc' = pc \/ (pc # "done" /\ pc' # "done")
        PROVE  UNCHANGED Contract!contractVars
    BY <2>3 DEF Contract!contractVars
  <2>4. CASE StoreWork
    <3>1. pc' = pc /\ results' = results
      BY <2>4 DEF StoreWork, mainVars
    <3> QED BY <2>3, <2>4, <3>1, StoreKeepsFound
  <2>5. CASE UNCHANGED graphVars /\ ~Report
    <3>1. Graph!stored' = Graph!stored
      BY <2>5 DEF graphVars, Graph!stored
    <3>2. ASSUME NEW k \in Chain, NEW p \in Pmt PROVE ~Find(k, p) \/ Contract!Next
      BY <2>1
    <3>3. \/ Contract!Next
          \/ /\ results' = results
             /\ pc' = pc \/ (pc # "done" /\ pc' # "done")
      BY <2>4, <2>5, <3>2
         DEF Next, Main, TimeOut, Wait, AskTracking, EndInput, EndStore,
             ChainStep, Throw, EndChain, StoreWork, vars, mainVars
    <3> QED BY <2>3, <3>1, <3>3
  <2>6. /\ TimeOut \/ Wait \/ AskTracking \/ EndInput \/ EndStore
             => UNCHANGED graphVars
        /\ \A k \in Chain : Throw(k) \/ EndChain(k) => UNCHANGED graphVars
        /\ UNCHANGED vars => UNCHANGED graphVars
    BY DEF TimeOut, Wait, AskTracking, EndInput, EndStore, Throw, EndChain, vars
  <2> QED BY <2>1, <2>2, <2>4, <2>5, <2>6 DEF Next, Main, ChainStep
<1> QED BY <1>1, <1>2, Inductive, PTL DEF Spec, ReportContract, Contract!Spec

=============================================================================
