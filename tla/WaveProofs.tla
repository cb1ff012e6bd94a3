----------------------------- MODULE WaveProofs -----------------------------
(***************************************************************************)
(* The wave engine, for every graph and every sequence of user calls: a    *)
(* completed or errored node stays terminal, the engine is type correct,   *)
(* its pending counters are exact, when a call has returned, be it after a *)
(* panic, nothing of its waves is left, and a paused node does not run.    *)
(*                                                                         *)
(* The first needs only the shape of the value records: each step changes  *)
(* the terminal flag of a node to TRUE or leaves it alone.                 *)
(*                                                                         *)
(* A node counts a dependency up when a "receive" call delivers DIRTY, so  *)
(* the count can only be right if every call on the stack names a          *)
(* dependency the receiver has.  The calls come from the lists of          *)
(* subscribers, from the queues of deferred actions and from the batch:    *)
(* the invariant types all of these together with the counters.            *)
(*                                                                         *)
(* What is left of a wave is what a guard on the stack will still clear:   *)
(* an invariant ties the delivery depth to the scopes on the stack         *)
(* that are open, deferred actions to an open scope or the drain after it, *)
(* the wave scope to its owner, and each node that is inside its fn or     *)
(* serves a pull to the call that ends that.  A panic drops the calls above*)
(* its catch and clears what they guarded.                                 *)
(*                                                                         *)
(* A paused node does not run because every call that leads to a run knows *)
(* that its node is free, and no PAUSE comes between the two.              *)
(***************************************************************************)
EXTENDS WaveEngine, FiniteSetTheorems, TLAPS

-----------------------------------------------------------------------------
(* Terminal nodes                                                          *)

\* Every node has a NodeValueState with a terminal flag.
ValueShape == DOMAIN value = Node /\ \A n \in Node : "terminal" \in DOMAIN value[n]

Kept == \A n \in Node : value[n].terminal => value'[n].terminal

(* Initially every node has its NodeValueState (Core::new).                *)
LEMMA InitShape == Init => ValueShape
  BY DEF Init, ValueShape

(* The handlers of down that write NodeValueState keep its shape and never *)
(* clear a terminal flag.                                                  *)
LEMMA DownKeeps ==
  ASSUME ValueShape, DownIntoBatch \/ DownNow \/ MsgDirty \/ MsgData \/ MsgResolved
                     \/ MsgInvalidate \/ MsgTerminal
  PROVE  ValueShape' /\ Kept
  <1>1. CASE DownIntoBatch
    BY <1>1 DEF DownIntoBatch, ValueShape, Kept
  <1>2. CASE DownNow
    BY <1>2 DEF DownNow, ValueShape, Kept
  <1>3. CASE MsgDirty
    BY <1>3 DEF MsgDirty, ValueShape, Kept
  <1>4. CASE MsgData
    BY <1>4 DEF MsgData, ValueShape, Kept
  <1>5. CASE MsgResolved
    BY <1>5 DEF MsgResolved, ValueShape, Kept
  <1>6. CASE MsgInvalidate
    BY <1>6 DEF MsgInvalidate, Cleared, ValueShape, Kept
  <1>7. CASE MsgTerminal
    BY <1>7 DEF MsgTerminal, ValueShape, Kept
  <1> QED BY <1>1, <1>2, <1>3, <1>4, <1>5, <1>6, <1>7

(* So do a DIRTY received from a dependency and a deactivation, the other  *)
(* two handlers that write NodeValueState.                                 *)
LEMMA GraphKeeps ==
  ASSUME ValueShape, ReceiveDirty \/ Deactivate
  PROVE  ValueShape' /\ Kept
  <1>1. CASE ReceiveDirty
    BY <1>1 DEF ReceiveDirty, ValueShape, Kept
  <1>2. CASE Deactivate
    BY <1>2 DEF Deactivate, Cleared, ValueShape, Kept
  <1> QED BY <1>1, <1>2

(* The other handlers of the engine leave NodeValueState alone.            *)
LEMMA OthersKeep ==
  ASSUME Step
  PROVE  \/ UNCHANGED value
         \/ DownIntoBatch \/ DownNow \/ MsgDirty \/ MsgData \/ MsgResolved
         \/ MsgInvalidate \/ MsgTerminal \/ ReceiveDirty \/ Deactivate
  <1>1. CASE DownTerminated \/ Owe \/ Enter \/ Finish \/ Drain \/ ApplyDeferred \/ Reset
             \/ MsgTeardown
    BY <1>1 DEF DownTerminated, Owe, Enter, Finish, Drain, ApplyDeferred, Reset, MsgTeardown
  <1>2. CASE ReceiveIdle \/ ReceiveSettle \/ ReceiveInvalidate \/ Undirty \/ ReceiveTerminal
             \/ ReceiveTeardown
    BY <1>2 DEF ReceiveIdle, ReceiveSettle, ReceiveInvalidate, Undirty, ReceiveTerminal,
                ReceiveTeardown
  <1>3. CASE MaybeRun \/ TryRun \/ Passthrough \/ Settle \/ SettleRest \/ Run \/ RunEnd \/ Roll
    BY <1>3 DEF MaybeRun, TryRun, Passthrough, Settle, SettleRest, Run, RunEnd, Roll
  <1>4. CASE UpPause \/ UpResume \/ UpPull \/ UpRequest \/ OnResume \/ ResumeSkipped
             \/ FireDemand \/ FirePull \/ PullEnd
    BY <1>4 DEF UpPause, UpResume, UpPull, UpRequest, OnResume, ResumeSkipped, FireDemand,
                FirePull, PullEnd
  <1>5. CASE Subscribe \/ Activate \/ SubscribeDep \/ SubscribedDep \/ Produce \/ Unsubscribe
             \/ Sink
    BY <1>5 DEF Subscribe, Activate, SubscribeDep, SubscribedDep, Produce, Unsubscribe, Sink
  <1>6. CASE OwnedDown \/ OwnerEnd \/ Panic \/ Recovered \/ CommitTarget \/ RollbackTarget
             \/ CloseBatch \/ Subscribed
    BY <1>6 DEF OwnedDown, OwnerEnd, Panic, Recovered, CommitTarget, RollbackTarget,
                CloseBatch, Subscribed
  <1> QED BY <1>1, <1>2, <1>3, <1>4, <1>5, <1>6 DEF Step

(* The user's own calls only put frames on the stack.                      *)
LEMMA UserKeeps ==
  ASSUME User
  PROVE  UNCHANGED value
  BY DEF User, UserDown, UserUp, UserSubscribe, UserUnsubscribe, LateEmit, OpenBatch,
         Commit, Rollback, FinishBatch

(* Every step keeps the shape of NodeValueState and every terminal flag.   *)
LEMMA StepKeeps ==
  ASSUME ValueShape, [Next]_vars
  PROVE  ValueShape' /\ Kept
  <1>1. CASE UNCHANGED value
    BY <1>1 DEF ValueShape, Kept
  <1>2. CASE Step
    BY <1>1, <1>2, OthersKeep, DownKeeps, GraphKeeps
  <1>3. CASE User
    BY <1>1, <1>3, UserKeeps
  <1>4. CASE UNCHANGED vars
    BY <1>1, <1>4 DEF vars
  <1> QED BY <1>2, <1>3, <1>4 DEF Next

(* A node that has completed or errored is terminal for ever, in every     *)
(* behaviour of the engine: TerminalForever holds of every graph and every *)
(* sequence of user calls.                                                 *)
THEOREM TerminalIsForever == Spec => TerminalForever
  <1>1. ValueShape /\ [Next]_vars => ValueShape'
    BY StepKeeps
  <1>2. ValueShape /\ [Next]_vars => [\A n \in Node : value[n].terminal => value'[n].terminal]_vars
    BY StepKeeps DEF Kept
  <1> QED BY InitShape, <1>1, <1>2, PTL DEF Spec, TerminalForever

-----------------------------------------------------------------------------
(* Types and pending counts                                                *)

\* Calls that name a dependency of the node they are made on.
OfDep == {"receive", "subscribe_dep", "subscribed_dep"}

FrameOK(f) ==
    /\ f.op # "close_batch" => f.n \in Node
    /\ f.op \in OfDep => f.i \in DepIdx(f.n)
    /\ f.op = "subscribe" => <<f.by, f.i>> \in Subscriber

\* A sequence of well-formed calls.
Good(s) == \E S : s \in Seq(S) /\ \A f \in S : FrameOK(f)

IsSeq(s) == \E S : s \in Seq(S)

ValueInv ==
    /\ DOMAIN value = Node
    /\ \A n \in Node :
         /\ {"terminal", "status"} \subseteq DOMAIN value[n]
         /\ value[n].terminal \in BOOLEAN
         /\ value[n].status \in Statuses

Dirties(n) == {i \in DepIdx(n) : dep[n].dirty[i]}

DepInv ==
    /\ DOMAIN dep = Node
    /\ \A n \in Node :
         /\ {"dirty", "pending"} \subseteq DOMAIN dep[n]
         /\ dep[n].dirty \in [DepIdx(n) -> BOOLEAN]
         /\ dep[n].pending = Cardinality(Dirties(n))

AuxInv ==
    /\ DOMAIN aux = Node
    /\ \A n \in Node :
         /\ {"unsubs", "buffer"} \subseteq DOMAIN aux[n]
         /\ aux[n].unsubs \subseteq DepIdx(n)
         /\ IsSeq(aux[n].buffer)

StackInv == Good(stack)
SubsInv == subs \in [Node -> Seq(Subscriber)]
DeferredInv == deferred \in [{"deferred_run", "deferred_settle"} -> Seq(Node)]
BatchInv == "targets" \in DOMAIN batch /\ batch.targets \in Seq(Node)
ScopeInv == "blamed" \in DOMAIN scope /\ scope.blamed \in Node \cup {NoNode}
UserInv == "program" \in DOMAIN user /\ user.program \in DOMAIN Programs

Inv ==
    /\ ValueInv /\ DepInv /\ AuxInv
    /\ StackInv /\ SubsInv /\ DeferredInv /\ BatchInv /\ ScopeInv /\ UserInv

-----------------------------------------------------------------------------
(* Sequences of calls.                                                     *)

(* A sequence over well-formed calls is well-formed.                       *)
LEMMA GoodFrom ==
  ASSUME NEW S, NEW s \in Seq(S), \A f \in S : FrameOK(f)
  PROVE  Good(s)
  BY DEF Good

(* No call is a well-formed sequence of calls.                             *)
LEMMA GoodEmpty == Good(<<>>)
  <1> DEFINE S == {}
             s == <<>>
  <1>1. s \in Seq(S) /\ \A f \in S : FrameOK(f)
    OBVIOUS
  <1> SUFFICES Good(s)
    OBVIOUS
  <1> HIDE DEF S, s
  <1> QED BY <1>1, GoodFrom

(* One well-formed call is.                                                *)
LEMMA GoodOne ==
  ASSUME NEW f, FrameOK(f)
  PROVE  Good(<<f>>)
  <1> DEFINE S == {f}
             s == <<f>>
  <1>1. s \in Seq(S)
    OBVIOUS
  <1>2. \A g \in S : FrameOK(g)
    BY Zenon
  <1> SUFFICES Good(s)
    OBVIOUS
  <1> HIDE DEF S, s
  <1> QED BY <1>1, <1>2, GoodFrom

(* Well-formed sequences concatenate.                                      *)
LEMMA GoodCat ==
  ASSUME NEW s, NEW t, Good(s), Good(t)
  PROVE  Good(s \o t)
  <1>1. PICK S : s \in Seq(S) /\ \A f \in S : FrameOK(f)
    BY DEF Good
  <1>2. PICK T : t \in Seq(T) /\ \A f \in T : FrameOK(f)
    BY DEF Good
  <1>3. s \in Seq(S \cup T) /\ t \in Seq(S \cup T)
    BY <1>1, <1>2
  <1>4. s \o t \in Seq(S \cup T)
    BY <1>3
  <1>5. \A f \in S \cup T : FrameOK(f)
    BY <1>1, <1>2
  <1> QED BY <1>4, <1>5 DEF Good

(* A guarded sequence is well-formed if the sequence is.                   *)
LEMMA GoodWhen ==
  ASSUME NEW c, NEW s, Good(s)
  PROVE  Good(When(c, s))
  BY GoodEmpty DEF When

(* The top of the stack is a well-formed call, and so is every call under  *)
(* it.                                                                     *)
LEMMA GoodTop ==
  ASSUME NEW s, Good(s), s # <<>>
  PROVE  FrameOK(s[1]) /\ Good(Tail(s))
  <1>1. PICK S : s \in Seq(S) /\ \A f \in S : FrameOK(f)
    BY DEF Good
  <1>2. s[1] \in S /\ Tail(s) \in Seq(S)
    BY <1>1
  <1> QED BY <1>1, <1>2 DEF Good

(* Unwinding leaves a well-formed stack, and catches at well-formed calls. *)
LEMMA GoodSub ==
  ASSUME NEW s, Good(s), NEW k \in 1..Len(s)
  PROVE  FrameOK(s[k]) /\ Good(SubSeq(s, k + 1, Len(s)))
  <1>1. PICK S : s \in Seq(S) /\ \A f \in S : FrameOK(f)
    BY DEF Good
  <1>2. s[k] \in S
    BY <1>1
  <1>3. SubSeq(s, k + 1, Len(s)) \in Seq(S)
    BY <1>1
  <1> QED BY <1>1, <1>2, <1>3 DEF Good

(* Calls that name no dependency are well-formed on every node.            *)
LEMMA PlainFrame ==
  ASSUME NEW n \in Node, NEW op, NEW ms, op \notin OfDep \cup {"subscribe"}
  PROVE  FrameOK(Frame(op, n)) /\ FrameOK(Call(op, n, ms)) /\ Good(<<Frame(op, n)>>)
         /\ Good(<<Call(op, n, ms)>>)
  BY GoodOne DEF FrameOK, Frame, Call

(* An unsubscribe is well-formed on every node.                            *)
LEMMA UnsubscribeFrame ==
  ASSUME NEW n \in Node, NEW by, NEW i
  PROVE  FrameOK(OfSubscriber("unsubscribe", n, by, i))
  BY DEF FrameOK, OfSubscriber, Frame, OfDep

(* A program names nodes of the graph only.                                *)
LEMMA OfProgram ==
  ASSUME UserInv
  PROVE  /\ \A d \in Does.downs : d[1] \in Node
         /\ \A u \in Does.ups : u[1] \in Node
         /\ \A n \in Does.observed : n \in Node
  BY ProgramsAssumption DEF UserInv, Does

(* A dependency of a node is a node.                                       *)
LEMMA DepIsNode ==
  ASSUME NEW n \in Node, NEW i \in DepIdx(n)
  PROVE  Deps[n][i] \in Node
  <1>1. Deps[n] \in Seq(1..(n - 1))
    BY DepsAssumption
  <1>2. Deps[n][i] \in 1..(n - 1)
    <2> DEFINE S == 1..(n - 1)
               d == Deps[n]
    <2>1. d \in Seq(S) /\ i \in 1..Len(d)
      BY <1>1 DEF DepIdx
    <2> HIDE DEF S, d
    <2>2. d[i] \in S
      BY <2>1
    <2> QED BY <2>2 DEF S, d
  <1> QED BY <1>2, NAssumption DEF Node

(* The number of dependencies is a number.                                 *)
LEMMA DepCount ==
  ASSUME NEW n \in Node
  PROVE  Len(Deps[n]) \in Nat /\ DepIdx(n) = 1..Len(Deps[n])
  <1>1. Deps[n] \in Seq(1..(n - 1))
    BY DepsAssumption
  <1> QED BY <1>1 DEF DepIdx

(* The call that hands a message to a subscriber is well-formed.           *)
LEMMA SubscriberFrame ==
  ASSUME NEW n \in Node, NEW by, NEW i, <<by, i>> \in Subscriber, NEW m
  PROVE  FrameOK(ToSubscriber(n, by, i, m))
  <1>1. CASE by = Ext
    BY <1>1 DEF ToSubscriber, Call, Frame, FrameOK, OfDep
  <1>2. CASE by # Ext
    <2>1. by \in Node /\ i \in DepIdx(by)
      BY <1>2 DEF Subscriber
    <2> QED BY <1>2, <2>1 DEF ToSubscriber, ReceiveBy, Frame, FrameOK, OfDep
  <1> QED BY <1>1, <1>2

(* deliver_subscriber_snapshot makes well-formed calls.                    *)
LEMMA GoodDeliver ==
  ASSUME SubsInv, NEW n \in Node, NEW m
  PROVE  Good(Deliver(n, m))
  <1> DEFINE s == subs[n]
             To(k) == ToSubscriber(n, s[k][1], s[k][2], m)
             S == {To(k) : k \in 1..Len(s)}
  <1>1. s \in Seq(Subscriber)
    BY DEF SubsInv
  <1>2. \A k \in 1..Len(s) : <<s[k][1], s[k][2]>> \in Subscriber
    <2> TAKE k \in 1..Len(s)
    <2>1. s[k] \in Subscriber
      BY <1>1
    <2>2. s[k] = <<s[k][1], s[k][2]>>
      BY <2>1 DEF Subscriber
    <2> QED BY <2>1, <2>2
  <1>3. \A f \in S : FrameOK(f)
    BY <1>2, SubscriberFrame
  <1>4. Len(s) \in Nat
    BY <1>1
  <1>5. [k \in 1..Len(s) |-> To(k)] \in Seq(S)
    <2> HIDE DEF s, To
    <2> QED BY <1>4
  <1> QED BY <1>3, <1>5 DEF Good, Deliver

(* A message forwarded upstream makes well-formed calls.                   *)
LEMMA GoodForward ==
  ASSUME NEW n \in Node, NEW m
  PROVE  Good(Forward(n, m))
  <1> DEFINE To(i) == Call("up", Deps[n][i], <<m>>)
             S == {To(i) : i \in DepIdx(n)}
  <1>1. \A f \in S : FrameOK(f)
    BY DepIsNode, PlainFrame DEF OfDep
  <1>2. Len(Deps[n]) \in Nat /\ DepIdx(n) = 1..Len(Deps[n])
    BY DepCount
  <1>3. [i \in DepIdx(n) |-> To(i)] \in Seq(S)
    <2> HIDE DEF To
    <2> QED BY <1>2
  <1> QED BY <1>1, <1>3 DEF Good, Forward

(* A step replaces the top call by the calls it makes.                     *)
LEMMA StackStep ==
  ASSUME StackInv, stack # <<>>, NEW frames, Good(frames), Calls(frames)
  PROVE  StackInv'
  <1>1. Good(Tail(stack))
    BY GoodTop DEF StackInv
  <1>2. Good(frames \o Tail(stack))
    BY <1>1, GoodCat
  <1> QED BY <1>2 DEF Calls, StackInv, Good

(* A handler is called on a node.                                          *)
LEMMA TopNode ==
  ASSUME StackInv, NEW op, At(op), op # "close_batch"
  PROVE  Top.n \in Node /\ stack # <<>> /\ (op \in OfDep => Top.i \in DepIdx(Top.n))
         /\ (op = "subscribe" => <<Top.by, Top.i>> \in Subscriber)
  BY GoodTop DEF At, Top, FrameOK, StackInv

(* Two or three well-formed calls are a well-formed sequence.              *)
LEMMA GoodMore ==
  ASSUME NEW f, NEW g, NEW h, FrameOK(f), FrameOK(g), FrameOK(h)
  PROVE  Good(<<f, g>>) /\ Good(<<f, g, h>>)
  <1> DEFINE S == {f, g, h}
             s == <<f, g>>
             t == <<f, g, h>>
  <1>1. s \in Seq(S) /\ t \in Seq(S)
    OBVIOUS
  <1>2. \A x \in S : FrameOK(x)
    BY Zenon
  <1> SUFFICES Good(s) /\ Good(t)
    OBVIOUS
  <1> HIDE DEF S, s, t
  <1> QED BY <1>1, <1>2, GoodFrom

(* The messages left of a wave are one more call.                          *)
LEMMA GoodRest ==
  ASSUME Top.n \in Node
  PROVE  Good(RestOfWave)
  BY PlainFrame, GoodWhen DEF RestOfWave, OfDep

(* The deferred actions are well-formed calls.                             *)
LEMMA GoodDeferred ==
  ASSUME DeferredInv, NEW kind \in {"deferred_run", "deferred_settle"}
  PROVE  Good(DeferredCalls(kind))
  <1> DEFINE d == deferred[kind]
             To(k) == Frame(kind, d[k])
             S == {To(k) : k \in 1..Len(d)}
  <1>1. d \in Seq(Node)
    BY DEF DeferredInv
  <1>2. \A k \in 1..Len(d) : d[k] \in Node
    BY <1>1
  <1>3. \A f \in S : FrameOK(f)
    BY <1>2, PlainFrame DEF OfDep
  <1>4. Len(d) \in Nat
    BY <1>1
  <1>5. [k \in 1..Len(d) |-> To(k)] \in Seq(S)
    <2> HIDE DEF d, To
    <2> QED BY <1>4
  <1> QED BY <1>3, <1>5 DEF Good, DeferredCalls

(* Running a fn, or relaying for a wire without one, is one call.          *)
LEMMA GoodRunOrRelay ==
  ASSUME NEW n \in Node
  PROVE  Good(RunOrRelay(n))
  BY PlainFrame DEF RunOrRelay, OfDep

(* What a fn does are well-formed calls.                                   *)
LEMMA GoodFnCalls ==
  ASSUME NEW n \in Node, NEW act \in FnActs[n]
  PROVE  Good(FnCalls(n, act))
  <1>1. CASE act = "emit"
    BY <1>1, PlainFrame DEF FnCalls, OfDep
  <1>2. CASE act = "emit_complete"
    BY <1>2, PlainFrame DEF FnCalls, OfDep
  <1>3. CASE act = "complete"
    BY <1>3, PlainFrame DEF FnCalls, OfDep
  <1>4. CASE act \in {"none", "defer"}
    BY <1>4, GoodEmpty DEF FnCalls
  <1>5. CASE act = "panic"
    BY <1>5, PlainFrame DEF FnCalls, OfDep
  <1>6. CASE act = "poke"
    <2>1. Deps[n] # <<>> /\ Deps[n] \in Seq(1..(n - 1))
      BY <1>6, FnActsAssumption, DepsAssumption
    <2>2. 1 \in DepIdx(n)
      BY <2>1 DEF DepIdx
    <2>3. Deps[n][1] \in Node
      BY <2>2, DepIsNode
    <2> QED BY <1>6, <2>3, PlainFrame DEF FnCalls, OfDep
  <1> QED BY <1>1, <1>2, <1>3, <1>4, <1>5, <1>6, FnActsAssumption

-----------------------------------------------------------------------------
(* The calls each handler makes.                                           *)

(* The calls of down, up to the loop over its messages.                    *)
LEMMA DownStack ==
  ASSUME StackInv, SubsInv, DownTerminated \/ DownIntoBatch \/ Owe \/ DownNow
  PROVE  StackInv'
  <1>1. CASE DownTerminated
    BY <1>1, TopNode, StackStep, GoodEmpty DEF DownTerminated
  <1>2. CASE DownIntoBatch
    <2>1. Top.n \in Node /\ stack # <<>>
      BY <1>2, TopNode DEF DownIntoBatch
    <2>2. Good(Deliver(Top.n, Msg("DIRTY"))) /\ Good(<<Frame("owe", Top.n)>>)
      BY <2>1, GoodDeliver, PlainFrame DEF OfDep
    <2> QED BY <1>2, <2>1, <2>2, GoodWhen, GoodCat, StackStep DEF DownIntoBatch
  <1>3. CASE Owe
    BY <1>3, TopNode, StackStep, GoodEmpty DEF Owe
  <1>4. CASE DownNow
    <2>1. Top.n \in Node /\ stack # <<>>
      BY <1>4, TopNode DEF DownNow
    <2>2. /\ Good(Deliver(Top.n, Msg("DIRTY")))
          /\ Good(<<Frame("panic", Top.n)>>) /\ Good(<<Frame("reset", Top.n)>>)
      BY <2>1, GoodDeliver, PlainFrame DEF OfDep
    <2>3. \A ms : Good(<<Frame("enter", Top.n), Call("msg", Top.n, ms), Frame("finish", Top.n)>>)
      BY <2>1, PlainFrame, GoodMore DEF OfDep
    <2>4. \A c, d, ms :
             Good(When(c, Deliver(Top.n, Msg("DIRTY")))
                  \o (<<Frame("enter", Top.n), Call("msg", Top.n, ms), Frame("finish", Top.n)>>
                      \o When(d, <<Frame("reset", Top.n)>>)))
      BY <2>2, <2>3, GoodWhen, GoodCat
    <2> QED BY <1>4, <2>1, <2>2, <2>4, GoodEmpty, StackStep DEF DownNow
  <1> QED BY <1>1, <1>2, <1>3, <1>4

(* The calls of the delivery guard and of the deferred actions.            *)
LEMMA DeliveryStack ==
  ASSUME StackInv, DeferredInv,
         Enter \/ Finish \/ Drain \/ ApplyDeferred \/ Reset \/ Undirty
  PROVE  StackInv'
  <1>1. CASE Enter
    BY <1>1, TopNode, StackStep, GoodEmpty DEF Enter
  <1>2. CASE Finish
    <2>1. Top.n \in Node /\ stack # <<>>
      BY <1>2, TopNode DEF Finish
    <2>2. Good(<<Frame("drain", Top.n)>>)
      BY <2>1, PlainFrame DEF OfDep
    <2> QED BY <1>2, <2>1, <2>2, GoodWhen, StackStep DEF Finish
  <1>3. CASE Drain
    <2>1. stack # <<>> /\ FrameOK(Top)
      BY <1>3, GoodTop DEF Drain, At, Top, StackInv
    <2>2. /\ Good(<<Top>>) /\ Good(DeferredCalls("deferred_run"))
          /\ Good(DeferredCalls("deferred_settle"))
      BY <2>1, GoodOne, GoodDeferred
    <2> QED BY <1>3, <2>1, <2>2, GoodWhen, GoodCat, StackStep DEF Drain
  <1>4. CASE ApplyDeferred
    <2>1. Top.n \in Node /\ stack # <<>>
      BY <1>4, TopNode DEF ApplyDeferred
    <2>2. Good(<<Frame("maybe_run", Top.n)>>) /\ Good(<<Frame("settle", Top.n)>>)
      BY <2>1, PlainFrame DEF OfDep
    <2> QED BY <1>4, <2>1, <2>2, GoodWhen, StackStep DEF ApplyDeferred
  <1>5. CASE Reset
    BY <1>5, TopNode, StackStep, GoodEmpty DEF Reset
  <1>6. CASE Undirty
    BY <1>6, TopNode, StackStep, GoodEmpty DEF Undirty
  <1> QED BY <1>1, <1>2, <1>3, <1>4, <1>5, <1>6

(* The calls one message of a wave makes.                                  *)
LEMMA MsgStack ==
  ASSUME StackInv, SubsInv,
         MsgDirty \/ MsgData \/ MsgResolved \/ MsgInvalidate \/ MsgTerminal \/ MsgTeardown
  PROVE  StackInv'
  <1>1. Top.n \in Node /\ stack # <<>>
    BY TopNode DEF MsgDirty, MsgData, MsgResolved, MsgInvalidate, MsgTerminal, MsgTeardown, AtMsg
  <1>2. Good(RestOfWave) /\ \A m : Good(Deliver(Top.n, m))
    BY <1>1, GoodRest, GoodDeliver
  <1>3. CASE MsgDirty
    BY <1>1, <1>2, <1>3, GoodWhen, GoodCat, StackStep DEF MsgDirty
  <1>4. CASE MsgData
    BY <1>1, <1>2, <1>4, GoodCat, StackStep DEF MsgData
  <1>5. CASE MsgResolved
    BY <1>1, <1>2, <1>5, GoodCat, StackStep DEF MsgResolved
  <1>6. CASE MsgInvalidate
    BY <1>1, <1>2, <1>6, GoodWhen, GoodCat, StackStep DEF MsgInvalidate
  <1>7. CASE MsgTerminal
    BY <1>1, <1>2, <1>7, GoodWhen, GoodCat, StackStep DEF MsgTerminal
  <1>8. CASE MsgTeardown
    BY <1>1, <1>2, <1>8, GoodCat, StackStep DEF MsgTeardown
  <1> QED BY <1>3, <1>4, <1>5, <1>6, <1>7, <1>8

(* The calls a message from a dependency makes.                            *)
LEMMA ReceiveStack ==
  ASSUME StackInv, SubsInv,
         ReceiveIdle \/ ReceiveDirty \/ ReceiveSettle \/ ReceiveInvalidate \/ ReceiveTerminal
         \/ ReceiveTeardown
  PROVE  StackInv'
  <1>1. Top.n \in Node /\ stack # <<>>
    BY TopNode DEF ReceiveIdle, ReceiveDirty, ReceiveSettle, ReceiveInvalidate, ReceiveTerminal,
                   ReceiveTeardown, AtReceive
  <1>2. \A m : Good(Deliver(Top.n, m))
    BY <1>1, GoodDeliver
  <1>3. \A ms : FrameOK(Call("down", Top.n, ms)) /\ Good(<<Call("down", Top.n, ms)>>)
    BY <1>1, PlainFrame DEF OfDep
  <1>4. /\ FrameOK(Frame("maybe_run", Top.n)) /\ FrameOK(Frame("settle", Top.n))
        /\ FrameOK(Frame("fire_demand", Top.n)) /\ Good(<<Frame("fire_demand", Top.n)>>)
        /\ Good(<<Frame("invalidate", Top.n)>>) /\ Good(<<Frame("undirty", Top.n)>>)
    BY <1>1, PlainFrame DEF OfDep
  <1>5. CASE ReceiveIdle
    BY <1>1, <1>2, <1>5, GoodWhen, StackStep DEF ReceiveIdle
  <1>6. CASE ReceiveDirty
    BY <1>1, <1>2, <1>6, GoodWhen, StackStep DEF ReceiveDirty
  <1>7. CASE ReceiveSettle
    <2>1. Good(<<Frame("maybe_run", Top.n), Frame("fire_demand", Top.n)>>)
      BY <1>4, GoodMore
    <2> QED BY <1>1, <1>7, <2>1, GoodWhen, StackStep DEF ReceiveSettle
  <1>8. CASE ReceiveInvalidate
    BY <1>1, <1>3, <1>4, <1>8, GoodWhen, GoodCat, StackStep DEF ReceiveInvalidate
  <1>9. CASE ReceiveTerminal
    <2>1. \A f : FrameOK(f) => Good(<<f, Frame("fire_demand", Top.n)>>)
      BY <1>4, GoodMore
    <2> QED BY <1>1, <1>3, <1>4, <1>9, <2>1, StackStep DEF ReceiveTerminal
  <1>10. CASE ReceiveTeardown
    BY <1>1, <1>3, <1>10, StackStep DEF ReceiveTeardown
  <1> QED BY <1>5, <1>6, <1>7, <1>8, <1>9, <1>10

(* The calls around the run of a fn.                                       *)
LEMMA RunStack ==
  ASSUME StackInv,
         MaybeRun \/ TryRun \/ Passthrough \/ Settle \/ SettleRest \/ Run \/ RunEnd \/ Roll
  PROVE  StackInv'
  <1>1. Top.n \in Node /\ stack # <<>>
    BY TopNode DEF MaybeRun, TryRun, Passthrough, Settle, SettleRest, Run, RunEnd, Roll
  <1>2. \A ms : Good(<<Call("down", Top.n, ms)>>)
    BY <1>1, PlainFrame DEF OfDep
  <1>3. /\ Good(<<Frame("maybe_run", Top.n)>>) /\ Good(<<Frame("settle_rest", Top.n)>>)
        /\ Good(<<Frame("panic", Top.n)>>) /\ Good(<<Frame("run_end", Top.n)>>)
        /\ Good(<<Frame("roll", Top.n)>>) /\ Good(<<Frame("roll_undirty", Top.n)>>)
    BY <1>1, PlainFrame DEF OfDep
  <1>4. Good(RunOrRelay(Top.n))
    BY <1>1, GoodRunOrRelay
  <1>5. CASE MaybeRun
    BY <1>1, <1>4, <1>5, GoodWhen, StackStep DEF MaybeRun
  <1>6. CASE TryRun
    BY <1>1, <1>4, <1>6, GoodWhen, StackStep DEF TryRun
  <1>7. CASE Passthrough
    BY <1>1, <1>2, <1>7, GoodWhen, StackStep DEF Passthrough
  <1>8. CASE Settle
    BY <1>1, <1>3, <1>8, GoodWhen, GoodCat, StackStep DEF Settle
  <1>9. CASE SettleRest
    BY <1>1, <1>2, <1>9, GoodWhen, StackStep DEF SettleRest
  <1>10. CASE Run
    <2>1. \A act \in FnActs[Top.n] : Good(FnCalls(Top.n, act))
      BY <1>1, GoodFnCalls
    <2> QED BY <1>1, <1>3, <1>10, <2>1, GoodCat, StackStep DEF Run
  <1>11. CASE RunEnd
    BY <1>1, <1>2, <1>3, <1>11, GoodWhen, GoodCat, StackStep DEF RunEnd
  <1>12. CASE Roll
    BY <1>1, <1>12, GoodEmpty, StackStep DEF Roll
  <1> QED BY <1>5, <1>6, <1>7, <1>8, <1>9, <1>10, <1>11, <1>12

(* Replaying the waves of a pause buffer.                                  *)
LEMMA GoodReplay ==
  ASSUME NEW n \in Node, NEW buffer, IsSeq(buffer)
  PROVE  Good([k \in 1..Len(buffer) |-> Call("down", n, buffer[k])])
  <1> DEFINE To(k) == Call("down", n, buffer[k])
             S == {To(k) : k \in 1..Len(buffer)}
  <1>1. Len(buffer) \in Nat
    BY DEF IsSeq
  <1>2. \A f \in S : FrameOK(f)
    BY PlainFrame DEF OfDep
  <1>3. [k \in 1..Len(buffer) |-> To(k)] \in Seq(S)
    <2> HIDE DEF To
    <2> QED BY <1>1
  <1> QED BY <1>2, <1>3 DEF Good

(* The calls of up and of the pull and resume protocol.                    *)
LEMMA UpStack ==
  ASSUME StackInv, AuxInv,
         UpPause \/ UpResume \/ UpPull \/ UpRequest \/ OnResume \/ ResumeSkipped
         \/ FireDemand \/ FirePull \/ PullEnd
  PROVE  StackInv'
  <1>1. Top.n \in Node /\ stack # <<>>
    BY TopNode DEF UpPause, UpResume, UpPull, UpRequest, OnResume, ResumeSkipped, FireDemand,
                   FirePull, PullEnd, AtUp
  <1>2. \A m : Good(Forward(Top.n, m))
    BY <1>1, GoodForward
  <1>3. /\ Good(<<Frame("on_resume", Top.n)>>) /\ Good(<<Frame("fire_demand", Top.n)>>)
        /\ Good(<<Frame("resume_skipped", Top.n)>>) /\ Good(<<Frame("try_run", Top.n)>>)
        /\ Good(<<Call("down", Top.n, <<Msg("INVALIDATE")>>)>>)
    BY <1>1, PlainFrame DEF OfDep
  <1>4. IsSeq(aux[Top.n].buffer)
    BY <1>1 DEF AuxInv
  <1>5. CASE UpPause
    BY <1>1, <1>5, GoodEmpty, StackStep DEF UpPause
  <1>6. CASE UpResume
    BY <1>1, <1>2, <1>3, <1>6, GoodWhen, GoodCat, StackStep DEF UpResume
  <1>7. CASE UpPull
    BY <1>1, <1>2, <1>3, <1>7, GoodWhen, StackStep DEF UpPull
  <1>8. CASE UpRequest
    BY <1>1, <1>2, <1>3, <1>8, GoodWhen, StackStep DEF UpRequest
  <1>9. CASE OnResume
    <2>1. Good([k \in 1..Len(aux[Top.n].buffer) |->
                   Call("down", Top.n, aux[Top.n].buffer[k])])
      BY <1>1, <1>4, GoodReplay
    <2> QED BY <1>1, <1>3, <1>9, <2>1, GoodEmpty, GoodCat, StackStep DEF OnResume
  <1>10. CASE ResumeSkipped
    BY <1>1, <1>3, <1>10, GoodWhen, StackStep DEF ResumeSkipped
  <1>11. CASE FireDemand
    <2>0. FrameOK(Frame("fire_pull", Top.n)) /\ FrameOK(Frame("pull_end", Top.n))
      BY <1>1, PlainFrame DEF OfDep
    <2>1. Good(<<Frame("fire_pull", Top.n), Frame("pull_end", Top.n)>>)
      BY <2>0, GoodMore
    <2> QED BY <1>1, <1>11, <2>1, GoodWhen, StackStep DEF FireDemand
  <1>12. CASE FirePull
    <2> DEFINE buffer == aux[Top.n].buffer
               replay == IF Config[Top.n].mode = "true" THEN <<Last(buffer)>> ELSE buffer
    <2>1. IsSeq(replay)
      <3>1. <<Last(buffer)>> \in Seq({Last(buffer)})
        OBVIOUS
      <3> QED BY <1>4, <3>1 DEF IsSeq
    <2>2. Good([k \in 1..Len(replay) |-> Call("down", Top.n, replay[k])])
      <3> HIDE DEF replay
      <3> QED BY <1>1, <2>1, GoodReplay
    <2> QED BY <1>1, <1>3, <1>12, <2>2, GoodWhen, StackStep DEF FirePull
  <1>13. CASE PullEnd
    BY <1>1, <1>13, GoodEmpty, StackStep DEF PullEnd
  <1> QED BY <1>5, <1>6, <1>7, <1>8, <1>9, <1>10, <1>11, <1>12, <1>13

(* Activation subscribes to every dependency, deactivation unsubscribes.   *)
LEMMA GoodEdges ==
  ASSUME NEW n \in Node, NEW H
  PROVE  /\ Good([i \in DepIdx(n) |-> OfSubscriber("subscribe_dep", n, n, i)])
         /\ Good([i \in DepIdx(n) |-> OfSubscriber("unsubscribe", Deps[n][i], n, H[i])])
  <1> DEFINE On(i) == OfSubscriber("subscribe_dep", n, n, i)
             Off(i) == OfSubscriber("unsubscribe", Deps[n][i], n, H[i])
             S == {On(i) : i \in DepIdx(n)}
             T == {Off(i) : i \in DepIdx(n)}
  <1>1. Len(Deps[n]) \in Nat /\ DepIdx(n) = 1..Len(Deps[n])
    BY DepCount
  <1>2. \A f \in S : FrameOK(f)
    BY DEF FrameOK, OfSubscriber, Frame, OfDep
  <1>3. \A f \in T : FrameOK(f)
    BY DepIsNode, UnsubscribeFrame
  <1>4. [i \in DepIdx(n) |-> On(i)] \in Seq(S) /\ [i \in DepIdx(n) |-> Off(i)] \in Seq(T)
    <2> HIDE DEF On, Off
    <2> QED BY <1>1
  <1> QED BY <1>2, <1>3, <1>4 DEF Good

(* The calls of subscription, activation and deactivation.                 *)
LEMMA SubscribeStack ==
  ASSUME StackInv,
         Subscribe \/ Activate \/ SubscribeDep \/ SubscribedDep \/ Produce \/ Unsubscribe
         \/ Deactivate \/ Subscribed
  PROVE  StackInv'
  <1>1. Top.n \in Node /\ stack # <<>>
    BY TopNode DEF Subscribe, Activate, SubscribeDep, SubscribedDep, Produce, Unsubscribe,
                   Deactivate, Subscribed
  <1>2. /\ Good(<<Frame("activate", Top.n)>>) /\ Good(<<Frame("produce", Top.n)>>)
        /\ Good(<<Frame("panic", Top.n)>>) /\ Good(<<Frame("run", Top.n)>>)
        /\ Good(<<Frame("deactivate", Top.n)>>)
    BY <1>1, PlainFrame DEF OfDep
  <1>3. CASE Subscribe
    <2>1. <<Top.by, Top.i>> \in Subscriber
      BY <1>3, TopNode DEF Subscribe
    <2>2. \A m : Good(<<ToSubscriber(Top.n, Top.by, Top.i, m)>>)
      BY <1>1, <2>1, SubscriberFrame, GoodOne
    <2> QED BY <1>1, <1>2, <1>3, <2>2, GoodEmpty, GoodWhen, GoodCat, StackStep DEF Subscribe
  <1>4. CASE Activate
    <2>1. Good([i \in DepIdx(Top.n) |-> OfSubscriber("subscribe_dep", Top.n, Top.n, i)])
      BY <1>1, GoodEdges
    <2> QED BY <1>1, <1>2, <1>4, <2>1, GoodEmpty, GoodCat, StackStep DEF Activate
  <1>5. CASE SubscribeDep
    <2>1. Top.i \in DepIdx(Top.n)
      BY <1>5, TopNode DEF SubscribeDep, OfDep
    <2>2. Deps[Top.n][Top.i] \in Node /\ <<Top.n, Top.i>> \in Subscriber
      BY <1>1, <2>1, DepIsNode DEF Subscriber
    <2>3. /\ FrameOK(OfSubscriber("subscribe", Deps[Top.n][Top.i], Top.n, Top.i))
          /\ FrameOK(OfSubscriber("subscribed_dep", Top.n, Top.n, Top.i))
      BY <1>1, <2>1, <2>2 DEF FrameOK, OfSubscriber, Frame, OfDep
    <2>4. Good(<<OfSubscriber("subscribe", Deps[Top.n][Top.i], Top.n, Top.i),
                 OfSubscriber("subscribed_dep", Top.n, Top.n, Top.i)>>)
      BY <2>3, GoodMore
    <2> QED BY <1>1, <1>5, <2>4, StackStep DEF SubscribeDep
  <1>6. CASE SubscribedDep
    BY <1>1, <1>2, <1>6, GoodEmpty, StackStep DEF SubscribedDep
  <1>7. CASE Produce
    BY <1>1, <1>2, <1>7, GoodWhen, StackStep DEF Produce
  <1>8. CASE Unsubscribe
    BY <1>1, <1>2, <1>8, GoodEmpty, GoodWhen, StackStep DEF Unsubscribe
  <1>9. CASE Deactivate
    <2> DEFINE H == [i \in DepIdx(Top.n) |-> IF i \in aux[Top.n].unsubs THEN i ELSE NoHandle]
               frames == [i \in DepIdx(Top.n) |->
                             OfSubscriber("unsubscribe", Deps[Top.n][i], Top.n,
                                          IF i \in aux[Top.n].unsubs THEN i ELSE NoHandle)]
    <2>1. Good([i \in DepIdx(Top.n) |->
                   OfSubscriber("unsubscribe", Deps[Top.n][i], Top.n, H[i])])
      <3> HIDE DEF H
      <3> QED BY <1>1, GoodEdges
    <2>2. Good(frames)
      BY <2>1
    <2>3. Calls(frames)
      BY <1>9 DEF Deactivate
    <2> HIDE DEF frames
    <2> QED BY <1>1, <2>2, <2>3, StackStep
  <1>10. CASE Subscribed
    BY <1>1, <1>10, GoodEmpty, StackStep DEF Subscribed
  <1> QED BY <1>3, <1>4, <1>5, <1>6, <1>7, <1>8, <1>9, <1>10

(* The calls of external sinks, of wave owners and of batches.             *)
LEMMA OwnerStack ==
  ASSUME StackInv, UserInv,
         Sink \/ OwnedDown \/ OwnerEnd \/ Recovered \/ CommitTarget \/ RollbackTarget
         \/ CloseBatch
  PROVE  StackInv'
  <1>1. CASE CloseBatch
    BY <1>1, GoodEmpty, StackStep DEF CloseBatch, At
  <1>2. CASE ~CloseBatch
    <2>1. Top.n \in Node /\ stack # <<>>
      BY <1>2, TopNode DEF Sink, OwnedDown, OwnerEnd, Recovered, CommitTarget, RollbackTarget
    <2>2. \A ms : Good(<<Call("down", Top.n, ms)>>) /\ Good(<<Call("owned_down", Top.n, ms)>>)
      BY <2>1, PlainFrame DEF OfDep
    <2>3. Good(<<Frame("panic", Top.n)>>) /\ Good(<<Frame("owner_end", Top.n)>>)
      BY <2>1, PlainFrame DEF OfDep
    <2>4. CASE Sink
      <3>1. \A t \in Does.observed : Good(<<OfSubscriber("unsubscribe", t, Ext, 1)>>)
        BY OfProgram, UnsubscribeFrame, GoodOne
      <3> QED BY <2>1, <2>3, <2>4, <3>1, GoodEmpty, StackStep DEF Sink
    <2>5. CASE OwnedDown
      BY <2>1, <2>2, <2>3, <2>5, GoodWhen, GoodCat, StackStep DEF OwnedDown
    <2>6. CASE OwnerEnd
      BY <2>1, <2>6, GoodEmpty, StackStep DEF OwnerEnd
    <2>7. CASE Recovered
      BY <2>1, <2>7, GoodEmpty, StackStep DEF Recovered
    <2>8. CASE CommitTarget
      BY <2>1, <2>2, <2>8, StackStep DEF CommitTarget
    <2>9. CASE RollbackTarget
      BY <2>1, <2>2, <2>9, GoodWhen, StackStep DEF RollbackTarget
    <2> QED BY <1>2, <2>4, <2>5, <2>6, <2>7, <2>8, <2>9
  <1> QED BY <1>1, <1>2

(* Recovery unwinds to a catch and emits ERROR from a node: the one that   *)
(* was running, or the owner.                                              *)
LEMMA PanicStack ==
  ASSUME StackInv, ScopeInv, Panic
  PROVE  StackInv'
  <1>1. PICK catch \in 1..Len(stack) :
          /\ Catches(catch)
          /\ stack' = When(stack[catch].op = "owner_end",
                           Recovery(IF scope.blamed # NoNode THEN scope.blamed
                                                             ELSE stack[catch].n))
                      \o SubSeq(stack, catch + 1, Len(stack))
    BY DEF Panic
  <1> DEFINE blamed == IF scope.blamed # NoNode THEN scope.blamed ELSE stack[catch].n
  <1>2. FrameOK(stack[catch]) /\ Good(SubSeq(stack, catch + 1, Len(stack)))
    BY GoodSub DEF StackInv
  <1>3. blamed \in Node
    BY <1>1, <1>2 DEF ScopeInv, FrameOK, Catches
  <1>4. Good(Recovery(blamed))
    <2> HIDE DEF blamed
    <2>1. FrameOK(Call("down", blamed, <<Msg("ERROR")>>)) /\ FrameOK(Frame("recovered", blamed))
      BY <1>3, PlainFrame DEF OfDep
    <2> QED BY <2>1, GoodMore DEF Recovery
  <1>5. Good(stack')
    BY <1>1, <1>2, <1>4, GoodWhen, GoodCat
  <1> QED BY <1>5 DEF StackInv, Good

(* The user's calls are well-formed.                                       *)
LEMMA UserStack ==
  ASSUME BatchInv, StackInv, UserInv, User
  PROVE  StackInv'
  <1>1. CASE \E d \in Does.downs : UserDown(d[1], d[2])
    <2>1. PICK d \in Does.downs : UserDown(d[1], d[2])
      BY <1>1
    <2>2. /\ FrameOK(Call("down", d[1], d[2])) /\ FrameOK(Frame("owner_end", d[1]))
      BY OfProgram, PlainFrame DEF OfDep
    <2>3. Good(<<Call("down", d[1], d[2]), Frame("owner_end", d[1])>>)
      BY <2>2, GoodMore
    <2> QED BY <2>1, <2>3 DEF UserDown, OwnedCall, StackInv, Good
  <1>2. CASE \E u \in Does.ups : UserUp(u[1], u[2])
    <2>1. PICK u \in Does.ups : UserUp(u[1], u[2])
      BY <1>2
    <2>2. /\ FrameOK(Call("up", u[1], <<u[2]>>)) /\ FrameOK(Frame("owner_end", u[1]))
      BY OfProgram, PlainFrame DEF OfDep
    <2>3. Good(<<Call("up", u[1], <<u[2]>>), Frame("owner_end", u[1])>>)
      BY <2>2, GoodMore
    <2> QED BY <2>1, <2>3 DEF UserUp, OwnedCall, StackInv, Good
  <1>3. CASE \E n \in Does.observed : UserSubscribe(n)
    <2>1. PICK n \in Does.observed : UserSubscribe(n)
      BY <1>3
    <2>2. n \in Node
      BY OfProgram
    <2>3. FrameOK(Frame("owner_end", n)) /\ FrameOK(Frame("subscribed", n))
      BY <2>2, PlainFrame DEF OfDep
    <2>4. FrameOK(OfSubscriber("subscribe", n, Ext, 1))
      BY <2>2 DEF FrameOK, OfSubscriber, Frame, OfDep, Subscriber
    <2>5. Good(<<OfSubscriber("subscribe", n, Ext, 1), Frame("owner_end", n),
                 Frame("subscribed", n)>>)
      BY <2>3, <2>4, GoodMore
    <2> QED BY <2>1, <2>5 DEF UserSubscribe, StackInv, Good
  <1>4. CASE \E n \in Does.observed : UserUnsubscribe(n)
    <2>1. PICK n \in Does.observed : UserUnsubscribe(n)
      BY <1>4
    <2>2. Good(<<OfSubscriber("unsubscribe", n, Ext, 1)>>)
      BY OfProgram, UnsubscribeFrame, GoodOne
    <2> QED BY <2>1, <2>2 DEF UserUnsubscribe, StackInv, Good
  <1>5. CASE \E n \in Node : LateEmit(n)
    <2>1. PICK n \in Node : LateEmit(n)
      BY <1>5
    <2>2. PICK v : stack' = <<Call("down", n, <<Data(v)>>), Frame("owner_end", n)>>
      BY <2>1 DEF LateEmit, OwnedCall
    <2>3. /\ FrameOK(Call("down", n, <<Data(v)>>)) /\ FrameOK(Frame("owner_end", n))
      BY PlainFrame DEF OfDep
    <2>4. Good(<<Call("down", n, <<Data(v)>>), Frame("owner_end", n)>>)
      BY <2>3, GoodMore
    <2> QED BY <2>2, <2>4 DEF StackInv, Good
  <1>6. CASE OpenBatch
    BY <1>6 DEF OpenBatch, StackInv, Good
  <1>7. CASE Commit \/ Rollback
    <2>1. PICK op \in {"commit", "rollback"} : FinishBatch(op)
      BY <1>7 DEF Commit, Rollback
    <2> DEFINE d == batch.targets
               To(k) == Call(op, d[k], batch.waves[d[k]])
               S == {To(k) : k \in 1..Len(d)}
               finish == [k \in 1..Len(d) |-> To(k)]
    <2>2. d \in Seq(Node)
      BY DEF BatchInv
    <2>3. \A k \in 1..Len(d) : d[k] \in Node
      BY <2>2
    <2>4. \A f \in S : FrameOK(f)
      BY <2>3, PlainFrame DEF OfDep
    <2>5. Len(d) \in Nat
      BY <2>2
    <2>6. finish \in Seq(S)
      <3> HIDE DEF d, To
      <3> QED BY <2>5
    <2>7. Good(finish)
      BY <2>4, <2>6 DEF Good
    <2>8. FrameOK(Frame("close_batch", NoNode))
      BY DEF FrameOK, Frame, OfDep
    <2>9. stack' = finish \o <<Frame("close_batch", NoNode)>>
      BY <2>1 DEF FinishBatch
    <2>10. Good(stack')
      <3> HIDE DEF finish
      <3> QED BY <2>7, <2>8, <2>9, GoodOne, GoodCat
    <2> QED BY <2>10 DEF StackInv, Good
  <1> QED BY <1>1, <1>2, <1>3, <1>4, <1>5, <1>6, <1>7 DEF User
-----------------------------------------------------------------------------
(* The counters.                                                           *)

(* A dependency record: which dependencies are dirty, and how many.        *)
Counted(n, d) ==
    /\ {"dirty", "pending"} \subseteq DOMAIN d
    /\ d.dirty \in [DepIdx(n) -> BOOLEAN]
    /\ d.pending = Cardinality({i \in DepIdx(n) : d.dirty[i]})

(* The invariant of the counters, record by record.                        *)
LEMMA DepInvCounted ==
  DepInv <=> DOMAIN dep = Node /\ \A n \in Node : Counted(n, dep[n])
  BY DEF DepInv, Counted, Dirties

(* A set of dependencies is finite and no larger than their number.        *)
LEMMA DirtyFinite ==
  ASSUME NEW n \in Node, NEW D, D \subseteq DepIdx(n)
  PROVE  IsFiniteSet(D) /\ Cardinality(D) \in 0..Len(Deps[n])
  <1>1. Len(Deps[n]) \in Nat /\ DepIdx(n) = 1..Len(Deps[n])
    BY DepCount
  <1>2. IsFiniteSet(DepIdx(n)) /\ Cardinality(DepIdx(n)) = Len(Deps[n])
    BY <1>1, FS_Interval
  <1>3. IsFiniteSet(D) /\ Cardinality(D) <= Cardinality(DepIdx(n))
    BY <1>2, FS_Subset
  <1>4. Cardinality(D) \in Nat
    BY <1>3, FS_CardinalityType
  <1> QED BY <1>1, <1>2, <1>3, <1>4

(* The record of a node that has just been activated counts nothing.       *)
LEMMA FreshCounted ==
  ASSUME NEW n \in Node
  PROVE  Counted(n, FreshDep(n))
  <1>1. {i \in DepIdx(n) : FreshDep(n).dirty[i]} = {}
    BY DEF FreshDep, NoDeps
  <1>2. Cardinality({}) = 0
    BY FS_EmptySet
  <1> QED BY <1>1, <1>2 DEF Counted, FreshDep, NoDeps

(* Recovery resets the flags and the count together.                       *)
LEMMA ResetCounted ==
  ASSUME NEW n \in Node, NEW d, Counted(n, d)
  PROVE  Counted(n, ResetDep(n, d))
  <1> DEFINE e == ResetDep(n, d)
  <1>1. {"dirty", "pending"} \subseteq DOMAIN e /\ e.dirty = NoDeps(n, FALSE) /\ e.pending = 0
    BY DEF ResetDep, Counted
  <1>2. {i \in DepIdx(n) : e.dirty[i]} = {}
    BY <1>1 DEF NoDeps
  <1>3. Cardinality({}) = 0
    BY FS_EmptySet
  <1>4. e.dirty \in [DepIdx(n) -> BOOLEAN]
    BY <1>1 DEF NoDeps
  <1> QED BY <1>1, <1>2, <1>3, <1>4 DEF Counted

(* A DIRTY from a clean dependency sets one flag and counts one up.        *)
LEMMA DirtyCounted ==
  ASSUME NEW n \in Node, NEW d, Counted(n, d), NEW i \in DepIdx(n), ~d.dirty[i]
  PROVE  Counted(n, [d EXCEPT !.dirty[i] = TRUE, !.pending = @ + 1])
  <1> DEFINE e == [d EXCEPT !.dirty[i] = TRUE, !.pending = @ + 1]
             D == {j \in DepIdx(n) : d.dirty[j]}
             E == {j \in DepIdx(n) : e.dirty[j]}
  <1>1. /\ DOMAIN e = DOMAIN d /\ e.dirty = [d.dirty EXCEPT ![i] = TRUE]
        /\ e.pending = d.pending + 1
    BY DEF Counted
  <1>2. e.dirty \in [DepIdx(n) -> BOOLEAN]
    BY <1>1 DEF Counted
  <1>3. E = D \cup {i} /\ i \notin D
    BY <1>1 DEF Counted
  <1>4. IsFiniteSet(D)
    BY DirtyFinite
  <1>5. Cardinality(E) = Cardinality(D) + 1
    BY <1>3, <1>4, FS_AddElement
  <1> QED BY <1>1, <1>2, <1>5 DEF Counted

(* A dependency that settles clears its flag and counts one down, or does  *)
(* nothing if it was clean.                                                *)
LEMMA UndirtiedCounted ==
  ASSUME NEW n \in Node, NEW d, Counted(n, d), NEW i \in DepIdx(n)
  PROVE  Counted(n, Undirtied(d, i))
  <1>1. CASE ~d.dirty[i]
    BY <1>1 DEF Undirtied
  <1>2. CASE d.dirty[i]
    <2> DEFINE e == [d EXCEPT !.dirty[i] = FALSE, !.pending = @ - 1]
               D == {j \in DepIdx(n) : d.dirty[j]}
               E == {j \in DepIdx(n) : e.dirty[j]}
    <2>1. /\ DOMAIN e = DOMAIN d /\ e.dirty = [d.dirty EXCEPT ![i] = FALSE]
          /\ e.pending = d.pending - 1
      BY DEF Counted
    <2>2. e.dirty \in [DepIdx(n) -> BOOLEAN]
      BY <2>1 DEF Counted
    <2>3. E = D \ {i} /\ i \in D
      BY <1>2, <2>1 DEF Counted
    <2>4. IsFiniteSet(D)
      BY DirtyFinite
    <2>5. Cardinality(E) = Cardinality(D) - 1
      BY <2>3, <2>4, FS_RemoveElement
    <2>6. Counted(n, e)
      BY <2>1, <2>2, <2>5 DEF Counted
    <2> QED BY <1>2, <2>6 DEF Undirtied
  <1> QED BY <1>1, <1>2

(* What else a handler writes into the record does not touch the count.    *)
LEMMA SameCounted ==
  ASSUME NEW n \in Node, NEW d, Counted(n, d), NEW e,
         DOMAIN e = DOMAIN d, e.dirty = d.dirty, e.pending = d.pending
  PROVE  Counted(n, e)
  BY DEF Counted

(* A step that writes the record of one node keeps the others.             *)
LEMMA OneRecord ==
  ASSUME DepInv, NEW n \in Node, NEW d, Counted(n, d), dep' = [dep EXCEPT ![n] = d]
  PROVE  DepInv'
  <1>1. DOMAIN dep' = Node /\ \A m \in Node : Counted(m, dep'[m])
    BY DepInvCounted
  <1> QED BY <1>1 DEF DepInv, Counted, Dirties

(* Messages from dependencies keep the count.                              *)
LEMMA ReceiveCounts ==
  ASSUME StackInv, DepInv,
         ReceiveDirty \/ ReceiveSettle \/ ReceiveInvalidate \/ ReceiveTerminal
  PROVE  DepInv'
  <1> DEFINE n == Top.n
             i == Top.i
             u == Undirtied(dep[n], i)
  <1>1. n \in Node /\ i \in DepIdx(n)
    BY TopNode DEF ReceiveDirty, ReceiveSettle, ReceiveInvalidate, ReceiveTerminal, AtReceive,
                   OfDep
  <1>2. Counted(n, dep[n])
    BY <1>1, DepInvCounted
  <1>3. Counted(n, u)
    <2> HIDE DEF n, i
    <2> QED BY <1>1, <1>2, UndirtiedCounted
  <1>4. CASE ReceiveDirty
    <2>1. CASE dep[n].dirty[i]
      BY <1>4, <2>1 DEF ReceiveDirty, DepInv, Dirties
    <2>2. CASE ~dep[n].dirty[i]
      <3> DEFINE d == [dep[n] EXCEPT !.dirty[i] = TRUE, !.pending = @ + 1]
      <3>1. dep' = [dep EXCEPT ![n].dirty[i] = TRUE, ![n].pending = @ + 1]
        BY <1>4, <2>2 DEF ReceiveDirty
      <3>2. dep' = [dep EXCEPT ![n] = d]
        BY <3>1, <1>1 DEF DepInv
      <3>3. Counted(n, d)
        BY <1>1, <1>2, <2>2, DirtyCounted
      <3> HIDE DEF d, n, i
      <3> QED BY <1>1, <3>2, <3>3, OneRecord
    <2> QED BY <2>1, <2>2
  <1>5. CASE ReceiveSettle
    <2> DEFINE d == IF Top.ms[1].kind = "DATA"
                      THEN [u EXCEPT !.batch[i] = Top.ms[1].v, !.has[i] = TRUE] ELSE u
    <2>1. dep' = [dep EXCEPT ![n] = d]
      BY <1>5 DEF ReceiveSettle
    <2>2. DOMAIN d = DOMAIN u /\ d.dirty = u.dirty /\ d.pending = u.pending
      <3> HIDE DEF u
      <3> QED BY <1>3 DEF Counted
    <2>3. Counted(n, d)
      <3> HIDE DEF d, u, n, i
      <3> QED BY <1>1, <1>3, <2>2, SameCounted
    <2> HIDE DEF d, n, i
    <2> QED BY <1>1, <2>1, <2>3, OneRecord
  <1>6. CASE ReceiveInvalidate
    <2> DEFINE d == [u EXCEPT !.prev[i] = NoVal, !.has[i] = FALSE, !.batch[i] = NoVal]
    <2>1. dep' = [dep EXCEPT ![n] = d]
      BY <1>6 DEF ReceiveInvalidate
    <2>2. DOMAIN d = DOMAIN u /\ d.dirty = u.dirty /\ d.pending = u.pending
      <3> HIDE DEF u
      <3> QED BY <1>3 DEF Counted
    <2>3. Counted(n, d)
      <3> HIDE DEF d, u, n, i
      <3> QED BY <1>1, <1>3, <2>2, SameCounted
    <2> HIDE DEF d, n, i
    <2> QED BY <1>1, <2>1, <2>3, OneRecord
  <1>7. CASE ReceiveTerminal
    <2> DEFINE d == [u EXCEPT !.terminal[i] = TRUE]
    <2>1. dep' = [dep EXCEPT ![n] = d]
      BY <1>7 DEF ReceiveTerminal
    <2>2. DOMAIN d = DOMAIN u /\ d.dirty = u.dirty /\ d.pending = u.pending
      <3> HIDE DEF u
      <3> QED BY <1>3 DEF Counted
    <2>3. Counted(n, d)
      <3> HIDE DEF d, u, n, i
      <3> QED BY <1>1, <1>3, <2>2, SameCounted
    <2> HIDE DEF d, n, i
    <2> QED BY <1>1, <2>1, <2>3, OneRecord
  <1> QED BY <1>4, <1>5, <1>6, <1>7

(* So do the handlers that roll, relay, drop or recover the dependencies'  *)
(* values.                                                                 *)
LEMMA OtherCounts ==
  ASSUME StackInv, DepInv, Passthrough \/ Roll \/ Deactivate \/ Panic
  PROVE  DepInv'
  <1> DEFINE n == Top.n
  <1>1. CASE Passthrough
    BY <1>1 DEF Passthrough, DepInv, Dirties
  <1>2. CASE Roll
    BY <1>2 DEF Roll, DepInv, Dirties
  <1>3. CASE Deactivate
    <2>1. n \in Node
      BY <1>3, TopNode DEF Deactivate
    <2>2. dep' = [dep EXCEPT ![n] = FreshDep(n)]
      BY <1>3 DEF Deactivate
    <2> HIDE DEF n
    <2> QED BY <2>1, <2>2, FreshCounted, OneRecord
  <1>4. CASE Panic
    <2>0. PICK catch \in 1..Len(stack) :
            dep' = [m \in Node |->
                      IF m \in (IF stack[catch].op = "owner_end" THEN scope.touched ELSE {})
                        THEN ResetDep(m, dep[m]) ELSE dep[m]]
      BY <1>4 DEF Panic
    <2> DEFINE reset == IF stack[catch].op = "owner_end" THEN scope.touched ELSE {}
    <2>1. dep' = [m \in Node |-> IF m \in reset THEN ResetDep(m, dep[m]) ELSE dep[m]]
      BY <2>0
    <2> HIDE DEF reset
    <2>2. DOMAIN dep' = Node /\ \A m \in Node : Counted(m, dep'[m])
      BY <2>1, DepInvCounted, ResetCounted
    <2> QED BY <2>2 DEF DepInv, Counted, Dirties
  <1> QED BY <1>1, <1>2, <1>3, <1>4

(* The other steps leave DepState alone.                                   *)
LEMMA DepUnchanged ==
  ASSUME [Next]_vars
  PROVE  \/ UNCHANGED dep
         \/ ReceiveDirty \/ ReceiveSettle \/ ReceiveInvalidate \/ ReceiveTerminal
         \/ Passthrough \/ Roll \/ Deactivate \/ Panic
  <1>1. CASE DownTerminated \/ DownIntoBatch \/ Owe \/ DownNow \/ Enter \/ Finish \/ Drain
             \/ ApplyDeferred \/ Reset \/ Undirty
    BY <1>1 DEF DownTerminated, DownIntoBatch, Owe, DownNow, Enter, Finish, Drain, ApplyDeferred,
                Reset, Undirty
  <1>2. CASE MsgDirty \/ MsgData \/ MsgResolved \/ MsgInvalidate \/ MsgTerminal \/ MsgTeardown
             \/ ReceiveIdle \/ ReceiveTeardown
    BY <1>2 DEF MsgDirty, MsgData, MsgResolved, MsgInvalidate, MsgTerminal, MsgTeardown,
                ReceiveIdle, ReceiveTeardown
  <1>3. CASE MaybeRun \/ TryRun \/ Settle \/ SettleRest \/ Run \/ RunEnd
    BY <1>3 DEF MaybeRun, TryRun, Settle, SettleRest, Run, RunEnd
  <1>4. CASE UpPause \/ UpResume \/ UpPull \/ UpRequest \/ OnResume \/ ResumeSkipped
             \/ FireDemand \/ FirePull \/ PullEnd
    BY <1>4 DEF UpPause, UpResume, UpPull, UpRequest, OnResume, ResumeSkipped, FireDemand,
                FirePull, PullEnd
  <1>5. CASE Subscribe \/ Activate \/ SubscribeDep \/ SubscribedDep \/ Produce \/ Unsubscribe
             \/ Sink \/ Subscribed
    BY <1>5 DEF Subscribe, Activate, SubscribeDep, SubscribedDep, Produce, Unsubscribe, Sink,
                Subscribed
  <1>6. CASE OwnedDown \/ OwnerEnd \/ Recovered \/ CommitTarget \/ RollbackTarget \/ CloseBatch
    BY <1>6 DEF OwnedDown, OwnerEnd, Recovered, CommitTarget, RollbackTarget, CloseBatch
  <1>7. CASE User
    BY <1>7 DEF User, UserDown, UserUp, UserSubscribe, UserUnsubscribe, LateEmit, OpenBatch,
                Commit, Rollback, FinishBatch
  <1>8. CASE UNCHANGED vars
    BY <1>8 DEF vars
  <1> QED BY <1>1, <1>2, <1>3, <1>4, <1>5, <1>6, <1>7, <1>8 DEF Next, Step

(* Every step keeps the pending counters exact.                            *)
LEMMA CountsStep ==
  ASSUME StackInv, DepInv, [Next]_vars
  PROVE  DepInv'
  <1>1. CASE UNCHANGED dep
    BY <1>1 DEF DepInv, Dirties
  <1> QED BY <1>1, DepUnchanged, ReceiveCounts, OtherCounts
-----------------------------------------------------------------------------
(* The rest of the invariant.                                              *)

(* NodeValueState keeps its type: the handlers that write it set a status  *)
(* and a terminal flag.                                                    *)
LEMMA ValueStep ==
  ASSUME ValueInv, [Next]_vars
  PROVE  ValueInv'
  <1>1. CASE UNCHANGED value
    BY <1>1 DEF ValueInv
  <1>2. CASE DownIntoBatch
    BY <1>2 DEF DownIntoBatch, ValueInv, Statuses
  <1>3. CASE DownNow
    BY <1>3 DEF DownNow, ValueInv, Statuses
  <1>4. CASE MsgDirty
    BY <1>4 DEF MsgDirty, ValueInv, Statuses
  <1>5. CASE MsgData
    BY <1>5 DEF MsgData, ValueInv, Statuses
  <1>6. CASE MsgResolved
    BY <1>6 DEF MsgResolved, ValueInv, Statuses
  <1>7. CASE MsgInvalidate
    BY <1>7 DEF MsgInvalidate, Cleared, ValueInv, Statuses
  <1>8. CASE MsgTerminal
    BY <1>8 DEF MsgTerminal, ValueInv, Statuses
  <1>9. CASE ReceiveDirty
    BY <1>9 DEF ReceiveDirty, ValueInv, Statuses
  <1>10. CASE Deactivate
    BY <1>10 DEF Deactivate, Cleared, ValueInv, Statuses
  <1>11. CASE User
    BY <1>1, <1>11, UserKeeps
  <1>12. CASE UNCHANGED vars
    BY <1>1, <1>12 DEF vars
  <1> QED BY <1>1, <1>2, <1>3, <1>4, <1>5, <1>6, <1>7, <1>8, <1>9, <1>10, <1>11, <1>12,
             OthersKeep DEF Next

(* What the invariant says of one NodeAux.                                 *)
AuxOK(n, a) ==
    /\ {"unsubs", "buffer"} \subseteq DOMAIN a
    /\ a.unsubs \subseteq DepIdx(n)
    /\ IsSeq(a.buffer)

(* A step that writes one NodeAux keeps the others.                        *)
LEMMA OneAux ==
  ASSUME AuxInv, NEW n \in Node, NEW a, AuxOK(n, a), aux' = [aux EXCEPT ![n] = a]
  PROVE  AuxInv'
  BY DEF AuxInv, AuxOK

(* A cleared pause buffer is a sequence, and so is one with a wave more.   *)
LEMMA Buffers ==
  /\ IsSeq(<<>>)
  /\ \A b, w : IsSeq(b) => IsSeq(Append(b, w))
  <1>1. IsSeq(<<>>)
    <2> DEFINE S == {}
               s == <<>>
    <2>1. s \in Seq(S)
      OBVIOUS
    <2> SUFFICES IsSeq(s)
      OBVIOUS
    <2> HIDE DEF S, s
    <2> QED BY <2>1 DEF IsSeq
  <1>2. ASSUME NEW b, NEW w, IsSeq(b) PROVE IsSeq(Append(b, w))
    <2>1. PICK S : b \in Seq(S)
      BY <1>2 DEF IsSeq
    <2> DEFINE T == S \cup {w}
    <2>2. b \in Seq(T) /\ w \in T
      BY <2>1
    <2> HIDE DEF T
    <2>3. Append(b, w) \in Seq(T)
      BY <2>2
    <2> QED BY <2>3 DEF IsSeq
  <1> QED BY <1>1, <1>2

(* The handlers of a wave keep NodeAux well-typed.                         *)
LEMMA WaveAux ==
  ASSUME StackInv, AuxInv,
         DownNow \/ MsgTerminal \/ ReceiveSettle \/ ReceiveInvalidate \/ MaybeRun \/ Run
  PROVE  AuxInv'
  <1>1. Top.n \in Node
    BY TopNode DEF DownNow, MsgTerminal, ReceiveSettle, ReceiveInvalidate, MaybeRun, Run, AtMsg,
                   AtReceive
  <1>2. CASE DownNow
    <2>1. \/ UNCHANGED aux
          \/ \E held : aux' = [aux EXCEPT ![Top.n].buffer = Append(@, held)]
      BY <1>2 DEF DownNow
    <2>2. CASE UNCHANGED aux
      BY <2>2 DEF AuxInv
    <2>3. ASSUME NEW held, aux' = [aux EXCEPT ![Top.n].buffer = Append(@, held)]
          PROVE  AuxInv'
      <3> DEFINE n == Top.n
                 a == [aux[n] EXCEPT !.buffer = Append(@, held)]
      <3>1. IsSeq(Append(aux[n].buffer, held))
        BY <1>1, Buffers DEF AuxInv
      <3>2. a.buffer = Append(aux[n].buffer, held) /\ a.unsubs = aux[n].unsubs
            /\ DOMAIN a = DOMAIN aux[n]
        BY <1>1 DEF AuxInv
      <3>3. AuxOK(n, a)
        <4> HIDE DEF a
        <4> QED BY <1>1, <3>1, <3>2 DEF AuxOK, AuxInv
      <3>4. aux' = [aux EXCEPT ![n] = a]
        BY <2>3
      <3> HIDE DEF n, a
      <3> QED BY <1>1, <3>3, <3>4, OneAux DEF n
    <2> QED BY <2>1, <2>2, <2>3
  <1>3. CASE MsgTerminal
    BY <1>3, Buffers DEF MsgTerminal, Quiesced, AuxInv
  <1>4. CASE ReceiveSettle
    BY <1>4 DEF ReceiveSettle, AuxInv
  <1>5. CASE ReceiveInvalidate
    BY <1>5 DEF ReceiveInvalidate, AuxInv
  <1>6. CASE MaybeRun
    BY <1>6 DEF MaybeRun, AuxInv
  <1>7. CASE Run
    BY <1>7 DEF Run, AuxInv
  <1> QED BY <1>2, <1>3, <1>4, <1>5, <1>6, <1>7

(* The pause and pull protocol keeps NodeAux well-typed.                   *)
LEMMA UpAux ==
  ASSUME StackInv, AuxInv,
         UpPause \/ UpResume \/ UpPull \/ OnResume \/ ResumeSkipped \/ FireDemand \/ FirePull
         \/ PullEnd
  PROVE  AuxInv'
  <1>1. CASE UpPause
    BY <1>1 DEF UpPause, AuxInv
  <1>2. CASE UpResume
    BY <1>2 DEF UpResume, AuxInv
  <1>3. CASE UpPull
    BY <1>3 DEF UpPull, AuxInv
  <1>4. CASE OnResume
    <2>1. CASE aux' = [aux EXCEPT ![Top.n] = Quiesced(@)]
      BY <2>1, Buffers DEF Quiesced, AuxInv
    <2>2. CASE aux' = [aux EXCEPT ![Top.n].buffer = <<>>]
      BY <2>2, Buffers DEF AuxInv
    <2> QED BY <1>4, <2>1, <2>2 DEF OnResume
  <1>5. CASE ResumeSkipped
    BY <1>5 DEF ResumeSkipped, AuxInv
  <1>6. CASE FireDemand
    BY <1>6 DEF FireDemand, AuxInv
  <1>7. CASE FirePull
    BY <1>7, Buffers DEF FirePull, AuxInv
  <1>8. CASE PullEnd
    BY <1>8 DEF PullEnd, AuxInv
  <1> QED BY <1>1, <1>2, <1>3, <1>4, <1>5, <1>6, <1>7, <1>8

(* Activation, deactivation and recovery keep NodeAux well-typed: only a   *)
(* dependency's own index is recorded as an unsubscribe handle.            *)
LEMMA EdgeAux ==
  ASSUME StackInv, AuxInv, Activate \/ SubscribedDep \/ Deactivate \/ Panic
  PROVE  AuxInv'
  <1>1. CASE Activate
    BY <1>1 DEF Activate, AuxInv
  <1>2. CASE SubscribedDep
    <2>1. Top.i \in DepIdx(Top.n)
      BY <1>2, TopNode DEF SubscribedDep, OfDep
    <2> QED BY <1>2, <2>1 DEF SubscribedDep, AuxInv
  <1>3. CASE Deactivate
    BY <1>3, Buffers DEF Deactivate, Quiesced, AuxInv
  <1>4. CASE Panic
    <2>1. PICK catch \in 1..Len(stack) :
            aux' = [m \in Node |->
                      IF m \in {stack[k].n : k \in {j \in 1..catch : stack[j].op = "pull_end"}}
                        THEN [aux[m] EXCEPT !.pulling = FALSE, !.pullDirty = FALSE]
                        ELSE aux[m]]
      BY <1>4 DEF Panic
    <2> DEFINE P == {stack[k].n : k \in {j \in 1..catch : stack[j].op = "pull_end"}}
    <2>2. aux' = [m \in Node |-> IF m \in P
                    THEN [aux[m] EXCEPT !.pulling = FALSE, !.pullDirty = FALSE] ELSE aux[m]]
      BY <2>1
    <2> HIDE DEF P
    <2> QED BY <2>2 DEF AuxInv
  <1> QED BY <1>1, <1>2, <1>3, <1>4

(* Which steps write NodeAux, the subscribers, the deferred actions, the   *)
(* batch and the wave scope.                                               *)
AuxSteps ==
    \/ DownNow \/ MsgTerminal \/ ReceiveSettle \/ ReceiveInvalidate \/ MaybeRun \/ Run
    \/ UpPause \/ UpResume \/ UpPull \/ OnResume \/ ResumeSkipped \/ FireDemand \/ FirePull
    \/ PullEnd \/ Activate \/ SubscribedDep \/ Deactivate \/ Panic

Footprint ==
    /\ UNCHANGED aux \/ AuxSteps
    /\ UNCHANGED subs \/ Subscribe \/ Unsubscribe
    /\ UNCHANGED deferred \/ Drain \/ MaybeRun \/ Settle \/ Panic \/ Recovered
    /\ UNCHANGED batch \/ DownIntoBatch \/ CloseBatch \/ OpenBatch \/ Commit \/ Rollback
    /\ \/ UNCHANGED scope \/ Run \/ Panic \/ scope' \in {NoScope, NewScope}
       \/ \E n : Touch(n)
    /\ UNCHANGED user \/ \E op : UserCall(op)

(* Every step stays within that footprint.                                 *)
LEMMA Writes ==
  ASSUME [Next]_vars
  PROVE  Footprint
  <1> USE DEF delivery, outside, Footprint, AuxSteps
  <1>1. CASE DownTerminated \/ Owe \/ Enter \/ Finish \/ Drain \/ ApplyDeferred \/ Reset
             \/ Undirty
    BY <1>1 DEF DownTerminated, Owe, Enter, Finish, Drain, ApplyDeferred, Reset, Undirty
  <1>2. CASE DownIntoBatch
    BY <1>2 DEF DownIntoBatch
  <1>3. CASE DownNow
    BY <1>3 DEF DownNow
  <1>4. CASE MsgDirty \/ MsgData \/ MsgResolved \/ MsgInvalidate \/ MsgTerminal \/ MsgTeardown
    BY <1>4 DEF MsgDirty, MsgData, MsgResolved, MsgInvalidate, MsgTerminal, MsgTeardown
  <1>5. CASE ReceiveIdle \/ ReceiveDirty \/ ReceiveTerminal \/ ReceiveTeardown
    BY <1>5 DEF ReceiveIdle, ReceiveDirty, ReceiveTerminal, ReceiveTeardown
  <1>6. CASE ReceiveSettle
    BY <1>6 DEF ReceiveSettle
  <1>7. CASE ReceiveInvalidate
    BY <1>7 DEF ReceiveInvalidate
  <1>8. CASE MaybeRun \/ TryRun \/ Passthrough \/ Settle \/ SettleRest \/ RunEnd \/ Roll
    BY <1>8 DEF MaybeRun, TryRun, Passthrough, Settle, SettleRest, RunEnd, Roll
  <1>9. CASE Run
    BY <1>9 DEF Run
  <1>10. CASE UpPause \/ UpResume \/ UpPull \/ UpRequest \/ OnResume \/ ResumeSkipped
              \/ FireDemand \/ FirePull \/ PullEnd
    BY <1>10 DEF UpPause, UpResume, UpPull, UpRequest, OnResume, ResumeSkipped, FireDemand,
                 FirePull, PullEnd
  <1>11. CASE Subscribe \/ Activate \/ SubscribeDep \/ SubscribedDep \/ Produce \/ Subscribed
    BY <1>11 DEF Subscribe, Activate, SubscribeDep, SubscribedDep, Produce, Subscribed
  <1>12. CASE Unsubscribe \/ Deactivate \/ Sink
    BY <1>12 DEF Unsubscribe, Deactivate, Sink
  <1>13. CASE OwnedDown \/ OwnerEnd \/ Recovered \/ CommitTarget \/ RollbackTarget \/ CloseBatch
    BY <1>13 DEF OwnedDown, OwnerEnd, Recovered, CommitTarget, RollbackTarget, CloseBatch
  <1>14. CASE Panic
    BY <1>14 DEF Panic
  <1>15. CASE User
    <2>1. CASE OpenBatch \/ Commit \/ Rollback
      BY <2>1 DEF OpenBatch, Commit, Rollback, FinishBatch
    <2>2. CASE \E n \in Does.observed : UserSubscribe(n) \/ UserUnsubscribe(n)
      BY <2>2 DEF UserSubscribe, UserUnsubscribe
    <2>3. CASE \E n \in Node : LateEmit(n)
      BY <2>3 DEF LateEmit, OwnedCall
    <2>4. CASE \E d \in Does.downs : UserDown(d[1], d[2])
      BY <2>4 DEF UserDown, OwnedCall
    <2>5. CASE \E u \in Does.ups : UserUp(u[1], u[2])
      BY <2>5 DEF UserUp, OwnedCall
    <2> QED BY <1>15, <2>1, <2>2, <2>3, <2>4, <2>5 DEF User
  <1>16. CASE UNCHANGED vars
    BY <1>16 DEF vars
  <1> QED BY <1>1, <1>2, <1>3, <1>4, <1>5, <1>6, <1>7, <1>8, <1>9, <1>10, <1>11, <1>12,
             <1>13, <1>14, <1>15, <1>16 DEF Next, Step

(* Every step keeps NodeAux well-typed.                                    *)
LEMMA AuxStep ==
  ASSUME StackInv, AuxInv, [Next]_vars
  PROVE  AuxInv'
  <1>1. CASE UNCHANGED aux
    BY <1>1 DEF AuxInv
  <1>2. CASE AuxSteps
    BY <1>2, WaveAux, UpAux, EdgeAux DEF AuxSteps
  <1> QED BY <1>1, <1>2, Writes DEF Footprint

(* A list without one of its elements is a list of the same elements.      *)
LEMMA Removed ==
  ASSUME NEW S, NEW s \in Seq(S), NEW k \in 1..Len(s)
  PROVE  RemoveAt(s, k) \in Seq(S)
  <1>1. SubSeq(s, 1, k - 1) \in Seq(S) /\ SubSeq(s, k + 1, Len(s)) \in Seq(S)
    OBVIOUS
  <1> QED BY <1>1 DEF RemoveAt

(* Only dependents and external sinks are ever subscribed.                 *)
LEMMA SubsStep ==
  ASSUME StackInv, SubsInv, [Next]_vars
  PROVE  SubsInv'
  <1>1. CASE UNCHANGED subs
    BY <1>1 DEF SubsInv
  <1>2. CASE Subscribe
    <2>1. <<Top.by, Top.i>> \in Subscriber /\ Top.n \in Node
      BY <1>2, TopNode DEF Subscribe
    <2>2. subs' = [subs EXCEPT ![Top.n] = Append(@, <<Top.by, Top.i>>)]
      BY <1>2 DEF Subscribe
    <2>3. Append(subs[Top.n], <<Top.by, Top.i>>) \in Seq(Subscriber)
      <3> DEFINE x == <<Top.by, Top.i>>
                 l == subs[Top.n]
      <3>1. l \in Seq(Subscriber) /\ x \in Subscriber
        BY <2>1 DEF SubsInv
      <3> SUFFICES Append(l, x) \in Seq(Subscriber)
        OBVIOUS
      <3> HIDE DEF x, l
      <3> QED BY <3>1
    <2> QED BY <2>1, <2>2, <2>3 DEF SubsInv
  <1>3. CASE Unsubscribe
    <2>1. Top.n \in Node
      BY <1>3, TopNode DEF Unsubscribe
    <2>2. \/ UNCHANGED subs
          \/ \E k \in 1..Len(subs[Top.n]) : subs' = [subs EXCEPT ![Top.n] = RemoveAt(@, k)]
      BY <1>3 DEF Unsubscribe
    <2>3. ASSUME NEW k \in 1..Len(subs[Top.n]), subs' = [subs EXCEPT ![Top.n] = RemoveAt(@, k)]
          PROVE  SubsInv'
      <3>1. RemoveAt(subs[Top.n], k) \in Seq(Subscriber)
        BY <2>1, Removed DEF SubsInv
      <3> QED BY <2>1, <2>3, <3>1 DEF SubsInv
    <2> QED BY <1>1, <2>2, <2>3
  <1> QED BY <1>1, <1>2, <1>3, Writes DEF Footprint

(* Empty queues of deferred actions are queues.                            *)
LEMMA NothingDeferred == NoDeferred \in [{"deferred_run", "deferred_settle"} -> Seq(Node)]
  <1>1. /\ DOMAIN NoDeferred = {"deferred_run", "deferred_settle"}
        /\ NoDeferred.deferred_run = <<>> /\ NoDeferred.deferred_settle = <<>>
    BY DEF NoDeferred
  <1>2. NoDeferred = [k \in DOMAIN NoDeferred |-> NoDeferred[k]]
    BY DEF NoDeferred
  <1>3. <<>> \in Seq(Node)
    OBVIOUS
  <1> QED BY <1>1, <1>2, <1>3

(* Only nodes are ever deferred.                                           *)
LEMMA DeferredStep ==
  ASSUME StackInv, DeferredInv, [Next]_vars
  PROVE  DeferredInv'
  <1>1. CASE UNCHANGED deferred
    BY <1>1 DEF DeferredInv
  <1>2. CASE deferred' = NoDeferred
    BY <1>2, NothingDeferred DEF DeferredInv
  <1>3. ASSUME NEW kind \in {"deferred_run", "deferred_settle"}, Top.n \in Node,
               deferred' = Deferring(kind, Top.n)
        PROVE  DeferredInv'
    <2>1. deferred[kind] \in Seq(Node)
      BY DEF DeferredInv
    <2>2. Append(deferred[kind], Top.n) \in Seq(Node)
      BY <1>3, <2>1
    <2> QED BY <1>1, <1>3, <2>2 DEF Deferring, DeferredInv
  <1>4. CASE MaybeRun
    <2>1. Top.n \in Node
      BY <1>4, TopNode DEF MaybeRun
    <2> QED BY <1>1, <1>3, <1>4, <2>1 DEF MaybeRun
  <1>5. CASE Settle
    <2>1. Top.n \in Node
      BY <1>5, TopNode DEF Settle
    <2> QED BY <1>1, <1>3, <1>5, <2>1 DEF Settle
  <1>6. CASE Drain \/ Panic \/ Recovered
    BY <1>2, <1>6 DEF Drain, Panic, Recovered
  <1> QED BY <1>1, <1>4, <1>5, <1>6, Writes DEF Footprint

(* Only nodes are ever targets of a batch.                                 *)
LEMMA BatchStep ==
  ASSUME StackInv, BatchInv, [Next]_vars
  PROVE  BatchInv'
  <1>1. CASE UNCHANGED batch
    BY <1>1 DEF BatchInv
  <1>2. CASE DownIntoBatch
    <2>1. Top.n \in Node
      BY <1>2, TopNode DEF DownIntoBatch
    <2>2. PICK ms : batch' = Collect(batch, Top.n, ms)
      BY <1>2 DEF DownIntoBatch
    <2>3. /\ DOMAIN batch' = DOMAIN batch
          /\ batch'.targets = IF Contains(batch.targets, Top.n) THEN batch.targets
                              ELSE Append(batch.targets, Top.n)
      BY <2>2 DEF Collect, BatchInv
    <2>4. Append(batch.targets, Top.n) \in Seq(Node)
      BY <2>1 DEF BatchInv
    <2> QED BY <2>3, <2>4 DEF BatchInv
  <1>3. CASE CloseBatch
    BY <1>3 DEF CloseBatch, NoBatch, BatchInv
  <1>4. CASE OpenBatch
    BY <1>4 DEF OpenBatch, NoBatch, BatchInv
  <1>5. CASE Commit \/ Rollback
    BY <1>5 DEF Commit, Rollback, FinishBatch, BatchInv
  <1> QED BY <1>1, <1>2, <1>3, <1>4, <1>5, Writes DEF Footprint

(* Only nodes are ever blamed for a panic.                                 *)
LEMMA ScopeStep ==
  ASSUME StackInv, ScopeInv, [Next]_vars
  PROVE  ScopeInv'
  <1>1. CASE UNCHANGED scope
    BY <1>1 DEF ScopeInv
  <1>2. CASE scope' \in {NoScope, NewScope}
    BY <1>2 DEF NoScope, NewScope, ScopeInv
  <1>3. ASSUME NEW n, Touch(n)
        PROVE  ScopeInv'
    BY <1>3 DEF Touch, ScopeInv
  <1>4. CASE Run
    <2>1. Top.n \in Node
      BY <1>4, TopNode DEF Run
    <2> QED BY <1>3, <1>4, <2>1 DEF Run, ScopeInv
  <1>5. CASE Panic
    BY <1>1, <1>2, <1>5 DEF Panic
  <1> QED BY <1>1, <1>2, <1>3, <1>4, <1>5, Writes DEF Footprint

(* The user runs one program.                                              *)
LEMMA UserStep ==
  ASSUME UserInv, [Next]_vars
  PROVE  UserInv'
  <1>1. UNCHANGED user \/ \E op : UserCall(op)
    BY Writes DEF Footprint
  <1>2. user'.program = user.program /\ DOMAIN user' = DOMAIN user
    BY <1>1 DEF UserCall, UserInv
  <1> QED BY <1>2 DEF UserInv

(* Every step leaves a well-formed stack.                                  *)
LEMMA CallsStep ==
  ASSUME Inv, [Next]_vars
  PROVE  StackInv'
  <1> USE DEF Inv
  <1>1. CASE UNCHANGED vars
    BY <1>1 DEF vars, StackInv, Good
  <1>2. CASE Step
    BY <1>2, DownStack, DeliveryStack, MsgStack, ReceiveStack, RunStack, UpStack, SubscribeStack,
       OwnerStack, PanicStack DEF Step
  <1> QED BY <1>1, <1>2, UserStack DEF Next

(* The invariant holds initially and is kept by every step.                *)
LEMMA InvHolds == Spec => []Inv
  <1>1. Init => Inv
    <2> SUFFICES ASSUME Init PROVE Inv
      OBVIOUS
    <2>1. ValueInv
      BY DEF Init, ValueInv, Statuses
    <2>2. SubsInv
      BY DEF Init, SubsInv
    <2>3. BatchInv
      BY DEF Init, BatchInv, NoBatch
    <2>4. ScopeInv
      BY DEF Init, ScopeInv, NoScope
    <2>5. DeferredInv
      BY NothingDeferred DEF Init, DeferredInv
    <2>6. DepInv
      <3>1. DOMAIN dep = Node /\ \A n \in Node : Counted(n, dep[n])
        BY FreshCounted DEF Init
      <3> QED BY <3>1 DEF DepInv, Counted, Dirties
    <2>7. AuxInv
      BY Buffers DEF Init, AuxInv
    <2>8. StackInv
      BY GoodEmpty DEF Init, StackInv
    <2>9. UserInv
      BY DEF Init, UserInv
    <2> QED BY <2>1, <2>2, <2>3, <2>4, <2>5, <2>6, <2>7, <2>8, <2>9 DEF Inv
  <1>2. Inv /\ [Next]_vars => Inv'
    <2> SUFFICES ASSUME Inv, [Next]_vars PROVE Inv'
      OBVIOUS
    <2>1. StackInv' BY CallsStep
    <2>2. ValueInv' BY ValueStep DEF Inv
    <2>3. DepInv' BY CountsStep DEF Inv
    <2>4. AuxInv' BY AuxStep DEF Inv
    <2>5. SubsInv' BY SubsStep DEF Inv
    <2>6. DeferredInv' BY DeferredStep DEF Inv
    <2>7. BatchInv' BY BatchStep DEF Inv
    <2>8. ScopeInv' BY ScopeStep DEF Inv
    <2>9. UserInv' BY UserStep DEF Inv
    <2> QED BY <2>1, <2>2, <2>3, <2>4, <2>5, <2>6, <2>7, <2>8, <2>9 DEF Inv
  <1> QED BY <1>1, <1>2, PTL DEF Spec

-----------------------------------------------------------------------------
(* For every graph and every sequence of calls, DepState.pending is the    *)
(* number of dirty dependencies after every step of receive_from_dep,      *)
(* run_wave, deactivate and the recovery from a panic.                     *)
THEOREM PendingExact == Spec => []PendingCounts
  <1>1. Inv => PendingCounts
    BY DEF Inv, DepInv, Dirties, PendingCounts
  <1> QED BY <1>1, InvHolds, PTL

(* For every graph and every sequence of calls, the engine's state keeps   *)
(* its type: pending counts within the number of dependencies, subscribers *)
(* and unsubscribe handles of real edges, calls on nodes of the graph.     *)
THEOREM WaveTypeCorrect == Spec => []TypeOK
  <1>1. Inv => TypeOK
    <2> SUFFICES ASSUME Inv PROVE TypeOK
      OBVIOUS
    <2>1. ASSUME NEW n \in Node PROVE dep[n].pending \in 0..Len(Deps[n])
      BY ZenonT(30), DirtyFinite, DepCount DEF Inv, DepInv, Dirties
    <2>2. ASSUME NEW k \in 1..Len(stack), stack[k].op # "close_batch" PROVE stack[k].n \in Node
      BY <2>2, GoodSub DEF Inv, StackInv, FrameOK
    <2> QED BY <2>1, <2>2 DEF Inv, ValueInv, AuxInv, SubsInv, ScopeInv, TypeOK
  <1> QED BY <1>1, InvHolds, PTL

-----------------------------------------------------------------------------
(* Nothing is left of a wave                                               *)

\* The places of the calls of one kind, counted from the bottom of the stack.
Places(s, op) == {p \in 1..Len(s) : s[Len(s) + 1 - p].op = op}

\* The delivery scopes that were entered and not finished.
Balance(s) == Cardinality(Places(s, "finish")) - Cardinality(Places(s, "enter"))

\* A scope that is still to be entered is finished two calls later.
Nested(s) == \A p \in Places(s, "enter") : p - 2 \in Places(s, "finish")

\* The nodes with a call of one kind on the stack.
Held(s, op) == {s[k].n : k \in {j \in 1..Len(s) : s[j].op = op}}

\* The calls whose being pushed the invariant has to account for.
Marks == {"enter", "finish", "fire_pull"}
Ends == {"drain", "run_end", "pull_end", "owner_end"}

Plain(s) == \E S : s \in Seq(S) /\ \A f \in S : f.op \notin Marks

GuardShape ==
    /\ DOMAIN wave = Node /\ DOMAIN aux = Node
    /\ \A n \in Node :
         /\ "inside" \in DOMAIN wave[n] /\ wave[n].inside \in BOOLEAN
         /\ {"pulling", "pullDirty"} \subseteq DOMAIN aux[n]
         /\ aux[n].pulling \in BOOLEAN /\ aux[n].pullDirty \in BOOLEAN
    /\ {"on", "touched", "blamed"} \subseteq DOMAIN scope /\ scope.on \in BOOLEAN

DepthInv == depth = Balance(stack) /\ Nested(stack)
DeferredHeld == deferred # NoDeferred => depth > 0 \/ Held(stack, "drain") # {}
ScopeHeld == IF scope.on THEN Held(stack, "owner_end") # {} ELSE scope = NoScope
InsideHeld == \A n \in Node : wave[n].inside => n \in Held(stack, "run_end")
PullHeld ==
    \A n \in Node : aux[n].pulling \/ aux[n].pullDirty => n \in Held(stack, "pull_end")
FirePullNext ==
    \A k \in 1..Len(stack) :
        stack[k].op = "fire_pull" =>
            k = 1 /\ Len(stack) > 1 /\ stack[2].op = "pull_end" /\ stack[2].n = stack[1].n

Guarded ==
    /\ GuardShape /\ DepthInv /\ DeferredHeld /\ ScopeHeld /\ InsideHeld /\ PullHeld
    /\ FirePullNext

-----------------------------------------------------------------------------
(* Places and scopes.                                                      *)

(* The places of a kind of call are finitely many.                         *)
LEMMA PlacesFinite ==
  ASSUME NEW s, IsSeq(s), NEW op
  PROVE  /\ Places(s, op) \subseteq 1..Len(s) /\ Len(s) \in Nat
         /\ IsFiniteSet(Places(s, op)) /\ Cardinality(Places(s, op)) \in Nat
  <1>1. Len(s) \in Nat
    BY DEF IsSeq
  <1>2. Places(s, op) \subseteq 1..Len(s)
    BY DEF Places
  <1>3. IsFiniteSet(1..Len(s))
    BY <1>1, FS_Interval
  <1>4. IsFiniteSet(Places(s, op))
    BY <1>2, <1>3, FS_Subset
  <1> QED BY <1>1, <1>2, <1>4, FS_CardinalityType

(* Calls put on a stack leave the places of the calls below alone.         *)
LEMMA PlacesCat ==
  ASSUME NEW t, IsSeq(t), NEW u, IsSeq(u), NEW op, \A k \in 1..Len(t) : t[k].op # op
  PROVE  IsSeq(t \o u) /\ Len(t \o u) = Len(t) + Len(u) /\ Places(t \o u, op) = Places(u, op)
  <1>1. PICK T : t \in Seq(T)
    BY DEF IsSeq
  <1>2. PICK U : u \in Seq(U)
    BY DEF IsSeq
  <1>3. t \in Seq(T \cup U) /\ u \in Seq(T \cup U)
    BY <1>1, <1>2
  <1>4. t \o u \in Seq(T \cup U) /\ Len(t \o u) = Len(t) + Len(u)
    BY <1>3
  <1>5. Len(t) \in Nat /\ Len(u) \in Nat
    BY <1>3
  <1>6. ASSUME NEW k \in 1..Len(t) PROVE (t \o u)[k] = t[k]
    BY <1>3
  <1>7. ASSUME NEW k \in 1..Len(u) PROVE (t \o u)[Len(t) + k] = u[k]
    BY <1>3
  <1>8. ASSUME NEW p \in Places(t \o u, op) PROVE p \in Places(u, op)
    <2> DEFINE k == Len(t) + Len(u) + 1 - p
    <2>1. p \in 1..(Len(t) + Len(u)) /\ (t \o u)[k].op = op
      BY <1>4 DEF Places
    <2>2. CASE k \in 1..Len(t)
      BY <1>6, <2>1, <2>2
    <2>3. CASE k \notin 1..Len(t)
      <3>1. p \in 1..Len(u) /\ Len(u) + 1 - p \in 1..Len(u) /\ k = Len(t) + (Len(u) + 1 - p)
        BY <1>5, <2>1, <2>3
      <3>2. (t \o u)[Len(t) + (Len(u) + 1 - p)] = u[Len(u) + 1 - p]
        BY <1>7, <3>1
      <3> QED BY <2>1, <3>1, <3>2 DEF Places
    <2> QED BY <2>2, <2>3
  <1>9. ASSUME NEW p \in Places(u, op) PROVE p \in Places(t \o u, op)
    <2>1. p \in 1..Len(u) /\ u[Len(u) + 1 - p].op = op /\ Len(u) + 1 - p \in 1..Len(u)
      BY <1>5 DEF Places
    <2>2. (t \o u)[Len(t) + (Len(u) + 1 - p)] = u[Len(u) + 1 - p]
      BY <1>7, <2>1
    <2>3. Len(t \o u) + 1 - p = Len(t) + (Len(u) + 1 - p) /\ p \in 1..Len(t \o u)
      BY <1>4, <1>5, <2>1
    <2> QED BY <2>1, <2>2, <2>3 DEF Places
  <1>10. Places(t \o u, op) = Places(u, op)
    BY <1>8, <1>9
  <1> QED BY <1>4, <1>10 DEF IsSeq

(* What a concatenation holds.                                             *)
LEMMA CatIndex ==
  ASSUME NEW V, NEW t \in Seq(V), NEW u \in Seq(V)
  PROVE  /\ t \o u \in Seq(V) /\ Len(t \o u) = Len(t) + Len(u)
         /\ Len(t) \in Nat /\ Len(u) \in Nat
         /\ \A k \in 1..Len(t) : (t \o u)[k] = t[k]
         /\ \A k \in 1..Len(u) : (t \o u)[Len(t) + k] = u[k]
  OBVIOUS

(* One call more has the next place.                                       *)
LEMMA PlacesOne ==
  ASSUME NEW V, NEW t \in Seq(V), NEW u \in Seq(V), Len(t) = 1, NEW op
  PROVE  /\ t \o u \in Seq(V) /\ Len(t \o u) = Len(u) + 1
         /\ Places(t \o u, op) = IF t[1].op = op THEN Places(u, op) \cup {Len(u) + 1}
                                 ELSE Places(u, op)
  <1> DEFINE s == t \o u
  <1> HIDE DEF s
  <1>0. /\ s \in Seq(V) /\ Len(s) = Len(t) + Len(u) /\ Len(u) \in Nat
        /\ \A k \in 1..Len(t) : s[k] = t[k]
        /\ \A k \in 1..Len(u) : s[Len(t) + k] = u[k]
    BY CatIndex DEF s
  <1>1. s \in Seq(V) /\ Len(s) = Len(u) + 1 /\ Len(u) \in Nat
    BY <1>0
  <1>2. s[1] = t[1] /\ \A k \in 1..Len(u) : s[1 + k] = u[k]
    BY <1>0
  <1>3. \A p \in 1..Len(u) : s[Len(s) + 1 - p] = u[Len(u) + 1 - p]
    <2> TAKE p \in 1..Len(u)
    <2>1. Len(u) + 1 - p \in 1..Len(u) /\ Len(s) + 1 - p = 1 + (Len(u) + 1 - p)
      BY <1>1
    <2> QED BY <1>2, <2>1
  <1>4. s[Len(s) + 1 - (Len(u) + 1)] = t[1]
    BY <1>1, <1>2
  <1>5. \A p : p \in 1..Len(s) <=> p \in 1..Len(u) \/ p = Len(u) + 1
    BY <1>1
  <1>6. \A p : p \in Places(s, op) <=> (p \in Places(u, op) \/ (p = Len(u) + 1 /\ t[1].op = op))
    BY <1>3, <1>4, <1>5 DEF Places
  <1>7. Places(s, op) = IF t[1].op = op THEN Places(u, op) \cup {Len(u) + 1} ELSE Places(u, op)
    BY <1>6
  <1> QED BY <1>1, <1>7 DEF s

(* The same of a call by itself.                                           *)
LEMMA PlacesPush ==
  ASSUME NEW f, NEW u, IsSeq(u)
  PROVE  /\ IsSeq(<<f>> \o u) /\ Len(<<f>> \o u) = Len(u) + 1
         /\ \A op : Places(<<f>> \o u, op) = IF f.op = op THEN Places(u, op) \cup {Len(u) + 1}
                                             ELSE Places(u, op)
  <1> DEFINE t == <<f>>
  <1>1. PICK U : u \in Seq(U)
    BY DEF IsSeq
  <1> DEFINE V == U \cup {f}
  <1>2. t \in Seq(V) /\ u \in Seq(V) /\ Len(t) = 1 /\ t[1] = f
    BY <1>1
  <1> HIDE DEF t, V
  <1>3. \A op : /\ t \o u \in Seq(V) /\ Len(t \o u) = Len(u) + 1
                /\ Places(t \o u, op) = IF t[1].op = op THEN Places(u, op) \cup {Len(u) + 1}
                                        ELSE Places(u, op)
    BY <1>2, PlacesOne
  <1> QED BY <1>2, <1>3 DEF t, IsSeq

(* The call on top has the last place.                                     *)
LEMMA TopAndTail ==
  ASSUME NEW s, IsSeq(s), s # <<>>
  PROVE  IsSeq(Tail(s)) /\ s = <<s[1]>> \o Tail(s) /\ Len(s) = Len(Tail(s)) + 1
  <1>1. PICK S : s \in Seq(S)
    BY DEF IsSeq
  <1>2. Tail(s) \in Seq(S) /\ s[1] \in S /\ Len(Tail(s)) = Len(s) - 1 /\ Len(s) \in Nat
    BY <1>1
  <1> DEFINE f == s[1]
             u == Tail(s)
             r == <<f>> \o u
  <1>3. r \in Seq(S) /\ Len(r) = Len(s)
    BY <1>2
  <1>4. ASSUME NEW k \in 1..Len(s) PROVE r[k] = s[k]
    BY <1>1, <1>2
  <1>5. r = s
    BY <1>1, <1>3, <1>4
  <1> QED BY <1>2, <1>5 DEF IsSeq

(* A scope to enter and to finish, put on a stack at once, is not open yet. *)
LEMMA BalanceSend ==
  ASSUME NEW u, IsSeq(u), Nested(u), NEW e, NEW m, NEW f,
         e.op = "enter", m.op = "msg", f.op = "finish"
  PROVE  LET s == <<e>> \o (<<m>> \o (<<f>> \o u))
         IN  IsSeq(s) /\ Balance(s) = Balance(u) /\ Nested(s)
  <1> DEFINE v == <<f>> \o u
             w == <<m>> \o v
             s == <<e>> \o w
             F(x) == Places(x, "finish")
             E(x) == Places(x, "enter")
  <1> HIDE DEF v, w, s
  <1>1. IsSeq(v) /\ Len(v) = Len(u) + 1 /\ F(v) = F(u) \cup {Len(u) + 1} /\ E(v) = E(u)
    <2>1. /\ IsSeq(v) /\ Len(v) = Len(u) + 1
          /\ \A op : Places(v, op) = IF f.op = op THEN Places(u, op) \cup {Len(u) + 1}
                                     ELSE Places(u, op)
      BY PlacesPush DEF v
    <2> QED BY <2>1
  <1>2. IsSeq(w) /\ Len(w) = Len(v) + 1 /\ F(w) = F(v) /\ E(w) = E(v)
    <2>0. IsSeq(v)
      BY <1>1
    <2>1. /\ IsSeq(w) /\ Len(w) = Len(v) + 1
          /\ \A op : Places(w, op) = IF m.op = op THEN Places(v, op) \cup {Len(v) + 1}
                                     ELSE Places(v, op)
      BY <2>0, PlacesPush DEF w
    <2> QED BY <2>1
  <1>3. IsSeq(s) /\ F(s) = F(w) /\ E(s) = E(w) \cup {Len(w) + 1}
    <2>0. IsSeq(w)
      BY <1>2
    <2>1. /\ IsSeq(s)
          /\ \A op : Places(s, op) = IF e.op = op THEN Places(w, op) \cup {Len(w) + 1}
                                     ELSE Places(w, op)
      BY <2>0, PlacesPush DEF s
    <2> QED BY <2>1
  <1>4. /\ Len(u) \in Nat /\ F(u) \subseteq 1..Len(u) /\ E(u) \subseteq 1..Len(u)
        /\ IsFiniteSet(F(u)) /\ IsFiniteSet(E(u))
        /\ Cardinality(F(u)) \in Nat /\ Cardinality(E(u)) \in Nat
    BY PlacesFinite
  <1>5. F(s) = F(u) \cup {Len(u) + 1} /\ E(s) = E(u) \cup {Len(u) + 3}
    BY <1>1, <1>2, <1>3, <1>4
  <1>6. Len(u) + 1 \notin F(u) /\ Len(u) + 3 \notin E(u)
    BY <1>4
  <1>7. Cardinality(F(s)) = Cardinality(F(u)) + 1
    <2>1. Cardinality(F(u) \cup {Len(u) + 1}) = Cardinality(F(u)) + 1
      BY <1>4, <1>6, FS_AddElement
    <2> QED BY <1>5, <2>1
  <1>8. Cardinality(E(s)) = Cardinality(E(u)) + 1
    <2>1. Cardinality(E(u) \cup {Len(u) + 3}) = Cardinality(E(u)) + 1
      BY <1>4, <1>6, FS_AddElement
    <2> QED BY <1>5, <2>1
  <1>9. Balance(s) = Balance(u)
    BY <1>4, <1>7, <1>8 DEF Balance
  <1>10. Nested(s)
    BY <1>4, <1>5 DEF Nested
  <1> QED BY <1>3, <1>9, <1>10 DEF s, w, v

(* Other calls put on a stack open and close no scope.                     *)
LEMMA BalancePlain ==
  ASSUME NEW t, Plain(t), NEW u, IsSeq(u), Nested(u)
  PROVE  IsSeq(t \o u) /\ Len(t \o u) = Len(t) + Len(u) /\ Balance(t \o u) = Balance(u) /\ Nested(t \o u)
  <1>1. PICK T : t \in Seq(T) /\ \A f \in T : f.op \notin Marks
    BY DEF Plain
  <1>2. IsSeq(t) /\ \A k \in 1..Len(t) : t[k].op \notin Marks
    BY <1>1 DEF IsSeq
  <1>3. ASSUME NEW op \in {"enter", "finish"}
        PROVE  IsSeq(t \o u) /\ Len(t \o u) = Len(t) + Len(u) /\ Places(t \o u, op) = Places(u, op)
    BY <1>2, PlacesCat DEF Marks
  <1> QED BY <1>3 DEF Balance, Nested

(* The end of any call but those two leaves the scopes alone.              *)
LEMMA BalanceTail ==
  ASSUME NEW s, IsSeq(s), s # <<>>, Nested(s)
  PROVE  /\ IsSeq(Tail(s)) /\ Nested(Tail(s)) /\ Balance(s) \in Int
         /\ s[1].op \notin {"enter", "finish"} => Balance(Tail(s)) = Balance(s)
         /\ s[1].op = "enter" => Balance(Tail(s)) = Balance(s) + 1
         /\ s[1].op = "finish" => Balance(Tail(s)) = Balance(s) - 1 /\ Balance(s) > 0
  <1> DEFINE u == Tail(s)
             F(x) == Places(x, "finish")
             E(x) == Places(x, "enter")
  <1>1. IsSeq(u) /\ s = <<s[1]>> \o u /\ Len(s) = Len(u) + 1
    BY TopAndTail
  <1> HIDE DEF u
  <1>2. /\ F(s) = IF s[1].op = "finish" THEN F(u) \cup {Len(u) + 1} ELSE F(u)
        /\ E(s) = IF s[1].op = "enter" THEN E(u) \cup {Len(u) + 1} ELSE E(u)
    <2>1. \A op : Places(<<s[1]>> \o u, op) = IF s[1].op = op THEN Places(u, op) \cup {Len(u) + 1}
                                             ELSE Places(u, op)
      BY <1>1, PlacesPush
    <2> QED BY <1>1, <2>1
  <1>3. /\ Len(u) \in Nat /\ F(u) \subseteq 1..Len(u) /\ E(u) \subseteq 1..Len(u)
        /\ IsFiniteSet(F(u)) /\ IsFiniteSet(E(u))
        /\ Cardinality(F(u)) \in Nat /\ Cardinality(E(u)) \in Nat
    BY <1>1, PlacesFinite
  <1>4. Len(u) + 1 \notin F(u) /\ Len(u) + 1 \notin E(u)
    BY <1>3
  <1>5. Nested(u)
    BY <1>2, <1>3 DEF Nested
  <1>6. s[1].op = "finish" => Cardinality(F(s)) = Cardinality(F(u)) + 1
    BY <1>2, <1>3, <1>4, FS_AddElement
  <1>7. s[1].op = "enter" => Cardinality(E(s)) = Cardinality(E(u)) + 1
    BY <1>2, <1>3, <1>4, FS_AddElement
  <1>8. Cardinality(E(u)) <= Cardinality(F(u))
    <2> DEFINE g == [p \in E(u) |-> p - 2]
    <2>1. g \in [E(u) -> F(u)]
      BY <1>5 DEF Nested
    <2>2. \A p, q \in E(u) : p # q => g[p] # g[q]
      BY <1>3
    <2>3. g \in Injection(E(u), F(u))
      BY <2>1, <2>2 DEF Injection, IsInjective
    <2> HIDE DEF g
    <2> QED BY <1>3, <2>3, FS_Injection
  <1> QED BY <1>1, <1>2, <1>3, <1>5, <1>6, <1>7, <1>8 DEF Balance, u

(* Unwinding a stack closes the scopes of the calls it drops.              *)
LEMMA BalanceSub ==
  ASSUME NEW s, IsSeq(s), Nested(s), NEW c \in 1..Len(s)
  PROVE  LET t == SubSeq(s, c + 1, Len(s))
             Count(op) == Cardinality({k \in 1..c : s[k].op = op})
         IN  /\ IsSeq(t) /\ Nested(t) /\ Balance(t) \in Int
             /\ Balance(t) = Balance(s) - (Count("finish") - Count("enter"))
  <1> DEFINE t == SubSeq(s, c + 1, Len(s))
             Up(op) == {k \in 1..c : s[k].op = op}
  <1>1. PICK S : s \in Seq(S)
    BY DEF IsSeq
  <1>2. t \in Seq(S) /\ Len(t) = Len(s) - c /\ Len(s) \in Nat /\ c \in Nat /\ c <= Len(s)
        /\ \A k \in 1..(Len(s) - c) : t[k] = s[c + k]
    BY <1>1
  <1>3. IsSeq(t)
    BY <1>2 DEF IsSeq
  <1> HIDE DEF t
  <1>4. ASSUME NEW op
        PROVE  /\ Places(t, op) = {p \in Places(s, op) : p <= Len(s) - c}
               /\ Cardinality(Places(s, op)) = Cardinality(Places(t, op)) + Cardinality(Up(op))
               /\ Cardinality(Up(op)) \in Nat /\ Cardinality(Places(t, op)) \in Nat
    <2>1. ASSUME NEW p \in 1..(Len(s) - c) PROVE t[Len(t) + 1 - p] = s[Len(s) + 1 - p]
      <3>1. Len(t) + 1 - p \in 1..(Len(s) - c) /\ c + (Len(t) + 1 - p) = Len(s) + 1 - p
        BY <1>2
      <3> QED BY <1>2, <3>1
    <2>2. \A p : p \in Places(t, op) <=> (p \in Places(s, op) /\ p <= Len(s) - c)
      <3>1. \A p : p \in 1..Len(t) <=> (p \in 1..Len(s) /\ p <= Len(s) - c)
        BY <1>2
      <3>2. \A p \in 1..Len(t) : t[Len(t) + 1 - p] = s[Len(s) + 1 - p]
        BY <1>2, <2>1
      <3> QED BY <3>1, <3>2 DEF Places
    <2>3. Places(t, op) = {p \in Places(s, op) : p <= Len(s) - c}
      BY <2>2
    <2> DEFINE High == {p \in Places(s, op) : p > Len(s) - c}
               g == [k \in Up(op) |-> Len(s) + 1 - k]
    <2>4. g \in [Up(op) -> High]
      BY <1>2 DEF Places
    <2>5. \A j, k \in Up(op) : j # k => g[j] # g[k]
      BY <1>2
    <2>6. ASSUME NEW p \in High PROVE \E k \in Up(op) : g[k] = p
      <3>1. Len(s) + 1 - p \in Up(op)
        BY <1>2 DEF Places
      <3> QED BY <1>2, <3>1 DEF Places
    <2>7. g \in Bijection(Up(op), High)
      BY <2>4, <2>5, <2>6 DEF Bijection, Injection, Surjection, IsInjective
    <2>8. IsFiniteSet(1..c)
      BY <1>2, FS_Interval
    <2>9. IsFiniteSet(Up(op))
      BY <2>8, FS_Subset
    <2> HIDE DEF g
    <2>10. IsFiniteSet(High) /\ Cardinality(High) = Cardinality(Up(op))
      <3> HIDE DEF High, Up
      <3>1. ExistsBijection(Up(op), High)
        BY <2>7 DEF ExistsBijection
      <3> QED BY <2>9, <3>1, FS_Bijection
    <2>11. Places(s, op) = Places(t, op) \cup High /\ Places(t, op) \cap High = {}
      <3>1. \A p \in Places(s, op) : p \in Nat
        BY <1>2 DEF Places
      <3> QED BY <1>2, <2>3, <3>1
    <2>12. IsFiniteSet(Places(t, op))
      BY <1>3, PlacesFinite
    <2>13. Cardinality(Places(s, op)) = Cardinality(Places(t, op)) + Cardinality(High)
      <3> HIDE DEF High
      <3>1. Cardinality(Places(t, op) \cup High) = Cardinality(Places(t, op)) + Cardinality(High)
        <4>1. /\ Cardinality(Places(t, op) \cup High)
                   = Cardinality(Places(t, op)) + Cardinality(High) - Cardinality(Places(t, op) \cap High)
              /\ Cardinality(Places(t, op)) \in Nat /\ Cardinality(High) \in Nat
          BY <2>10, <2>12, FS_Union, FS_CardinalityType
        <4>2. Cardinality(Places(t, op) \cap High) = 0
          BY <2>11, FS_EmptySet
        <4> QED BY <4>1, <4>2
      <3> QED BY <2>11, <3>1
    <2> QED BY <2>3, <2>9, <2>10, <2>12, <2>13, FS_CardinalityType
  <1>5. Nested(t)
    <2> SUFFICES ASSUME NEW p \in Places(t, "enter") PROVE p - 2 \in Places(t, "finish")
      BY DEF Nested
    <2>1. p \in Places(s, "enter") /\ p <= Len(s) - c
      BY <1>4
    <2>2. p - 2 \in Places(s, "finish") /\ p \in Nat
      BY <1>2, <2>1 DEF Nested, Places
    <2>3. p - 2 <= Len(s) - c
      BY <1>2, <2>1, <2>2
    <2>4. Places(t, "finish") = {q \in Places(s, "finish") : q <= Len(s) - c}
      BY <1>4
    <2> QED BY <2>2, <2>3, <2>4
  <1>6. Balance(t) \in Int /\ Balance(t) = Balance(s) - (Cardinality(Up("finish")) - Cardinality(Up("enter")))
    <2> HIDE DEF Up
    <2> QED BY <1>4 DEF Balance
  <1> QED BY <1>3, <1>5, <1>6 DEF t

-----------------------------------------------------------------------------
(* Calls on the stack.                                                     *)

(* A call below the top stays on the stack whatever the handler on top     *)
(* calls.                                                                  *)
LEMMA HeldKept ==
  ASSUME IsSeq(stack), stack # <<>>, NEW frames, IsSeq(frames), Calls(frames)
  PROVE  \A op : (Top.op # op => Held(stack, op) \subseteq Held(stack', op))
                 /\ Held(frames, op) \subseteq Held(stack', op)
  <1> DEFINE u == Tail(stack)
             r == frames \o u
  <1>1. IsSeq(u) /\ stack = <<Top>> \o u /\ Len(stack) = Len(u) + 1
    BY TopAndTail DEF Top
  <1>2. \A k \in 1..Len(u) : stack[k + 1] = u[k]
    BY DEF IsSeq
  <1>3. PICK V : frames \in Seq(V) /\ u \in Seq(V)
    <2>1. PICK A : frames \in Seq(A)
      BY DEF IsSeq
    <2>2. PICK B : u \in Seq(B)
      BY <1>1 DEF IsSeq
    <2>3. frames \in Seq(A \cup B) /\ u \in Seq(A \cup B)
      BY <2>1, <2>2
    <2> QED BY <2>3
  <1> HIDE DEF u
  <1>4. /\ Len(r) = Len(frames) + Len(u) /\ Len(frames) \in Nat /\ Len(u) \in Nat
        /\ \A k \in 1..Len(frames) : r[k] = frames[k]
        /\ \A k \in 1..Len(u) : r[Len(frames) + k] = u[k]
    BY <1>3, CatIndex
  <1> HIDE DEF r
  <1>5. stack' = r
    BY DEF Calls, r, u
  <1>6. ASSUME NEW op, Top.op # op, NEW n \in Held(stack, op) PROVE n \in Held(r, op)
    <2>1. PICK k \in 1..Len(stack) : stack[k].op = op /\ stack[k].n = n
      BY DEF Held
    <2>2. k # 1
      BY <1>6, <2>1 DEF Top
    <2>3. k - 1 \in 1..Len(u) /\ (k - 1) + 1 = k
      BY <1>1, <1>4, <2>1, <2>2
    <2>4. u[k - 1] = stack[k]
      BY <1>2, <2>3
    <2>5. r[Len(frames) + (k - 1)] = stack[k] /\ Len(frames) + (k - 1) \in 1..Len(r)
      BY <1>4, <2>3, <2>4
    <2> QED BY <2>1, <2>5 DEF Held
  <1>7. ASSUME NEW op, NEW n \in Held(frames, op) PROVE n \in Held(r, op)
    <2>1. PICK k \in 1..Len(frames) : frames[k].op = op /\ frames[k].n = n
      BY DEF Held
    <2>2. r[k] = frames[k] /\ k \in 1..Len(r)
      BY <1>4, <2>1
    <2> QED BY <2>1, <2>2 DEF Held
  <1> QED BY <1>5, <1>6, <1>7

(* Sequences of calls that open no scope: none, one, some after others.    *)
LEMMA PlainEmpty == Plain(<<>>)
  <1> DEFINE S == {}
             s == <<>>
  <1>1. s \in Seq(S) /\ \A f \in S : f.op \notin Marks
    OBVIOUS
  <1> SUFFICES Plain(s)
    OBVIOUS
  <1> HIDE DEF S, s
  <1> QED BY <1>1 DEF Plain

(* One call.                                                               *)
LEMMA PlainOne ==
  ASSUME NEW f, f.op \notin Marks
  PROVE  Plain(<<f>>)
  <1> DEFINE S == {f}
             s == <<f>>
  <1>1. s \in Seq(S)
    OBVIOUS
  <1>2. \A g \in S : g.op \notin Marks
    BY Zenon
  <1> SUFFICES Plain(s)
    OBVIOUS
  <1> HIDE DEF S, s
  <1> QED BY <1>1, <1>2 DEF Plain

(* Two calls.                                                              *)
LEMMA PlainTwo ==
  ASSUME NEW f, NEW g, f.op \notin Marks, g.op \notin Marks
  PROVE  Plain(<<f, g>>)
  <1> DEFINE S == {f, g}
             s == <<f, g>>
  <1>1. s \in Seq(S)
    OBVIOUS
  <1>2. \A h \in S : h.op \notin Marks
    BY Zenon
  <1> SUFFICES Plain(s)
    OBVIOUS
  <1> HIDE DEF S, s
  <1> QED BY <1>1, <1>2 DEF Plain

(* Some after others.                                                      *)
LEMMA PlainCat ==
  ASSUME NEW s, NEW t, Plain(s), Plain(t)
  PROVE  Plain(s \o t)
  <1>1. PICK S : s \in Seq(S) /\ \A f \in S : f.op \notin Marks
    BY DEF Plain
  <1>2. PICK T : t \in Seq(T) /\ \A f \in T : f.op \notin Marks
    BY DEF Plain
  <1>3. s \in Seq(S \cup T) /\ t \in Seq(S \cup T)
    BY <1>1, <1>2
  <1>4. s \o t \in Seq(S \cup T)
    BY <1>3
  <1>5. \A f \in S \cup T : f.op \notin Marks
    BY <1>1, <1>2
  <1> QED BY <1>4, <1>5 DEF Plain

(* Some, if a condition holds.                                             *)
LEMMA PlainWhen ==
  ASSUME NEW c, NEW s, Plain(s)
  PROVE  Plain(When(c, s))
  BY PlainEmpty DEF When

(* One call for each place of a list.                                      *)
LEMMA PlainList ==
  ASSUME NEW k \in Nat, NEW g, DOMAIN g = 1..k, \A i \in 1..k : g[i].op \notin Marks
  PROVE  Plain([i \in 1..k |-> g[i]])
  <1> DEFINE S == {g[i] : i \in 1..k}
  <1>1. [i \in 1..k |-> g[i]] \in Seq(S)
    OBVIOUS
  <1>2. \A f \in S : f.op \notin Marks
    OBVIOUS
  <1> QED BY <1>1, <1>2 DEF Plain

(* The calls of most kinds.                                                *)
LEMMA PlainFrames ==
  ASSUME NEW op, op \notin Marks, NEW n, NEW ms, NEW by, NEW i
  PROVE  /\ Frame(op, n).op \notin Marks /\ Call(op, n, ms).op \notin Marks
         /\ OfSubscriber(op, n, by, i).op \notin Marks
         /\ Plain(<<Frame(op, n)>>) /\ Plain(<<Call(op, n, ms)>>)
         /\ Plain(<<OfSubscriber(op, n, by, i)>>)
  <1>1. Frame(op, n).op = op /\ Call(op, n, ms).op = op /\ OfSubscriber(op, n, by, i).op = op
    BY DEF Frame, Call, OfSubscriber
  <1> QED BY <1>1, PlainOne

(* Messages handed to subscribers are such calls.                          *)
LEMMA PlainSubscriber ==
  ASSUME NEW n, NEW by, NEW i, NEW m
  PROVE  ToSubscriber(n, by, i, m).op \notin Marks
  BY DEF ToSubscriber, Call, ReceiveBy, Frame, Marks

(* A delivery, what is left of a wave, and a message passed on upstream.   *)
LEMMA PlainDeliver ==
  ASSUME SubsInv, NEW n \in Node, NEW m
  PROVE  Plain(Deliver(n, m))
  <1> DEFINE k == Len(subs[n])
             g == [j \in 1..k |-> ToSubscriber(n, subs[n][j][1], subs[n][j][2], m)]
  <1>1. k \in Nat
    BY DEF SubsInv
  <1>2. \A j \in 1..k : g[j].op \notin Marks
    BY PlainSubscriber
  <1>3. DOMAIN g = 1..k /\ Deliver(n, m) = g /\ g = [j \in 1..k |-> g[j]]
    BY DEF Deliver
  <1> HIDE DEF k, g
  <1> QED BY <1>1, <1>2, <1>3, PlainList

(* A message passed on upstream.                                           *)
LEMMA PlainForward ==
  ASSUME NEW n \in Node, NEW m
  PROVE  Plain(Forward(n, m))
  <1> DEFINE k == Len(Deps[n])
             g == [j \in 1..k |-> Call("up", Deps[n][j], <<m>>)]
  <1>1. k \in Nat /\ DepIdx(n) = 1..k
    BY DepCount
  <1>2. \A j \in 1..k : g[j].op \notin Marks
    BY PlainFrames DEF Marks
  <1>3. DOMAIN g = 1..k /\ Forward(n, m) = g /\ g = [j \in 1..k |-> g[j]]
    BY <1>1 DEF Forward
  <1> HIDE DEF k, g
  <1> QED BY <1>1, <1>2, <1>3, PlainList

(* The rest of a wave.                                                     *)
LEMMA PlainRest == Plain(RestOfWave)
  BY PlainFrames, PlainWhen DEF RestOfWave, Marks

(* Deferred actions.                                                       *)
LEMMA PlainDeferred ==
  ASSUME DeferredInv, NEW kind \in {"deferred_run", "deferred_settle"}
  PROVE  Plain(DeferredCalls(kind))
  <1> DEFINE k == Len(deferred[kind])
             g == [j \in 1..k |-> Frame(kind, deferred[kind][j])]
  <1>1. k \in Nat
    BY DEF DeferredInv
  <1>2. \A j \in 1..k : g[j].op \notin Marks
    BY PlainFrames DEF Marks
  <1>3. DOMAIN g = 1..k /\ DeferredCalls(kind) = g /\ g = [j \in 1..k |-> g[j]]
    BY DEF DeferredCalls
  <1> HIDE DEF k, g
  <1> QED BY <1>1, <1>2, <1>3, PlainList

(* What a fn calls.                                                        *)
LEMMA PlainFn ==
  ASSUME NEW n \in Node, NEW act \in FnActs[n]
  PROVE  Plain(FnCalls(n, act))
  <1>1. act \in {"emit", "emit_complete", "complete", "none", "defer", "panic", "poke"}
    BY FnActsAssumption
  <1>2. CASE act = "emit"
    BY <1>2, PlainFrames DEF FnCalls, Marks
  <1>3. CASE act = "emit_complete"
    BY <1>3, PlainFrames DEF FnCalls, Marks
  <1>4. CASE act = "complete"
    BY <1>4, PlainFrames DEF FnCalls, Marks
  <1>5. CASE act = "none" \/ act = "defer"
    BY <1>5, PlainEmpty DEF FnCalls
  <1>6. CASE act = "panic"
    BY <1>6, PlainFrames DEF FnCalls, Marks
  <1>7. CASE act = "poke"
    BY <1>7, PlainFrames DEF FnCalls, Marks
  <1> QED BY <1>1, <1>2, <1>3, <1>4, <1>5, <1>6, <1>7

-----------------------------------------------------------------------------
(* The calls each handler makes open no scope and start no pull, those of  *)
(* down and of a pull demand apart.                                        *)

\* A handler at the top of the stack makes calls of that kind.
Ordinary == stack # <<>> /\ \E frames : Plain(frames) /\ Calls(frames)

(* A handler that makes such calls.                                        *)
LEMMA OrdinaryBy ==
  ASSUME NEW frames, Plain(frames), stack # <<>>, Calls(frames)
  PROVE  Ordinary
  BY DEF Ordinary

(* Running a fn, or relaying for a wire without one.                       *)
LEMMA PlainRun ==
  ASSUME NEW n
  PROVE  Plain(RunOrRelay(n))
  BY PlainFrames DEF RunOrRelay, Marks

(* Replaying a pause buffer.                                               *)
LEMMA PlainReplay ==
  ASSUME NEW n, NEW buffer, IsSeq(buffer)
  PROVE  Plain([k \in 1..Len(buffer) |-> Call("down", n, buffer[k])])
  <1> DEFINE k == Len(buffer)
             g == [j \in 1..k |-> Call("down", n, buffer[j])]
  <1>1. k \in Nat
    BY DEF IsSeq
  <1>2. \A j \in 1..k : g[j].op \notin Marks
    BY PlainFrames DEF Marks
  <1>3. DOMAIN g = 1..k /\ g = [j \in 1..k |-> g[j]]
    OBVIOUS
  <1>4. Plain(g)
    <2> HIDE DEF k, g
    <2> QED BY <1>1, <1>2, <1>3, PlainList
  <1> QED BY <1>4

(* Activation and deactivation.                                            *)
LEMMA PlainEdges ==
  ASSUME NEW n \in Node, NEW H
  PROVE  /\ Plain([i \in DepIdx(n) |-> OfSubscriber("subscribe_dep", n, n, i)])
         /\ Plain([i \in DepIdx(n) |-> OfSubscriber("unsubscribe", Deps[n][i], n, H[i])])
  <1> DEFINE k == Len(Deps[n])
             g == [i \in 1..k |-> OfSubscriber("subscribe_dep", n, n, i)]
             h == [i \in 1..k |-> OfSubscriber("unsubscribe", Deps[n][i], n, H[i])]
  <1>1. k \in Nat /\ DepIdx(n) = 1..k
    BY DepCount
  <1>2. \A j \in 1..k : g[j].op \notin Marks /\ h[j].op \notin Marks
    BY PlainFrames DEF Marks
  <1>3. DOMAIN g = 1..k /\ g = [j \in 1..k |-> g[j]] /\ DOMAIN h = 1..k /\ h = [j \in 1..k |-> h[j]]
    OBVIOUS
  <1>4. Plain(g) /\ Plain(h)
    <2> HIDE DEF k, g, h
    <2> QED BY <1>1, <1>2, <1>3, PlainList
  <1> QED BY <1>1, <1>4

(* The calls of down, but for those that send a wave.                      *)
LEMMA DownOrdinary ==
  ASSUME StackInv, SubsInv, DownTerminated \/ DownIntoBatch \/ Owe
  PROVE  Ordinary
  <1>1. CASE DownTerminated
    BY <1>1, OrdinaryBy, PlainEmpty DEF DownTerminated, At
  <1>2. CASE DownIntoBatch
    <2>1. Top.n \in Node /\ stack # <<>>
      BY <1>2, TopNode DEF DownIntoBatch
    <2>2. Plain(Deliver(Top.n, Msg("DIRTY"))) /\ Plain(<<Frame("owe", Top.n)>>)
      BY <2>1, PlainDeliver, PlainFrames DEF Marks
    <2> QED BY <1>2, <2>1, <2>2, PlainWhen, PlainCat, OrdinaryBy DEF DownIntoBatch
  <1>3. CASE Owe
    BY <1>3, OrdinaryBy, PlainEmpty DEF Owe, At
  <1> QED BY <1>1, <1>2, <1>3

(* The calls of the delivery guard and of the deferred actions.            *)
LEMMA DeliveryOrdinary ==
  ASSUME StackInv, DeferredInv,
         Enter \/ Finish \/ Drain \/ ApplyDeferred \/ Reset \/ Undirty
  PROVE  Ordinary
  <1>0. stack # <<>>
    BY DEF Enter, Finish, Drain, ApplyDeferred, Reset, Undirty, At
  <1>1. CASE Enter
    BY <1>0, <1>1, OrdinaryBy, PlainEmpty DEF Enter
  <1>2. CASE Finish
    <2>2. Plain(<<Frame("drain", Top.n)>>)
      BY PlainFrames DEF Marks
    <2> QED BY <1>0, <1>2, <2>2, PlainWhen, OrdinaryBy DEF Finish
  <1>3. CASE Drain
    <2>1. Top.op = "drain"
      BY <1>3 DEF Drain, At, Top
    <2>2. /\ Plain(<<Top>>) /\ Plain(DeferredCalls("deferred_run"))
          /\ Plain(DeferredCalls("deferred_settle"))
      BY <2>1, PlainOne, PlainDeferred DEF Marks
    <2> QED BY <1>0, <1>3, <2>2, PlainWhen, PlainCat, OrdinaryBy DEF Drain
  <1>4. CASE ApplyDeferred
    <2>2. Plain(<<Frame("maybe_run", Top.n)>>) /\ Plain(<<Frame("settle", Top.n)>>)
      BY PlainFrames DEF Marks
    <2> QED BY <1>0, <1>4, <2>2, PlainWhen, OrdinaryBy DEF ApplyDeferred
  <1>5. CASE Reset
    BY <1>0, <1>5, OrdinaryBy, PlainEmpty DEF Reset
  <1>6. CASE Undirty
    BY <1>0, <1>6, OrdinaryBy, PlainEmpty DEF Undirty
  <1> QED BY <1>1, <1>2, <1>3, <1>4, <1>5, <1>6

(* The calls one message of a wave makes.                                  *)
LEMMA MsgOrdinary ==
  ASSUME StackInv, SubsInv,
         MsgDirty \/ MsgData \/ MsgResolved \/ MsgInvalidate \/ MsgTerminal \/ MsgTeardown
  PROVE  Ordinary
  <1>1. Top.n \in Node /\ stack # <<>>
    BY TopNode DEF MsgDirty, MsgData, MsgResolved, MsgInvalidate, MsgTerminal, MsgTeardown, AtMsg
  <1>2. Plain(RestOfWave) /\ \A m : Plain(Deliver(Top.n, m))
    BY <1>1, PlainRest, PlainDeliver
  <1>3. CASE MsgDirty
    BY <1>1, <1>2, <1>3, PlainWhen, PlainCat, OrdinaryBy DEF MsgDirty
  <1>4. CASE MsgData
    BY <1>1, <1>2, <1>4, PlainCat, OrdinaryBy DEF MsgData
  <1>5. CASE MsgResolved
    BY <1>1, <1>2, <1>5, PlainCat, OrdinaryBy DEF MsgResolved
  <1>6. CASE MsgInvalidate
    BY <1>1, <1>2, <1>6, PlainWhen, PlainCat, OrdinaryBy DEF MsgInvalidate
  <1>7. CASE MsgTerminal
    BY <1>1, <1>2, <1>7, PlainWhen, PlainCat, OrdinaryBy DEF MsgTerminal
  <1>8. CASE MsgTeardown
    BY <1>1, <1>2, <1>8, PlainCat, OrdinaryBy DEF MsgTeardown
  <1> QED BY <1>3, <1>4, <1>5, <1>6, <1>7, <1>8

(* The calls a message from a dependency makes.                            *)
LEMMA ReceiveOrdinary ==
  ASSUME StackInv, SubsInv,
         ReceiveIdle \/ ReceiveDirty \/ ReceiveSettle \/ ReceiveInvalidate \/ ReceiveTerminal
         \/ ReceiveTeardown
  PROVE  Ordinary
  <1>1. Top.n \in Node /\ stack # <<>>
    BY TopNode DEF ReceiveIdle, ReceiveDirty, ReceiveSettle, ReceiveInvalidate, ReceiveTerminal,
                   ReceiveTeardown, AtReceive
  <1>2. \A m : Plain(Deliver(Top.n, m))
    BY <1>1, PlainDeliver
  <1>3. \A ms : Call("down", Top.n, ms).op \notin Marks /\ Plain(<<Call("down", Top.n, ms)>>)
    BY PlainFrames DEF Marks
  <1>4. /\ Frame("maybe_run", Top.n).op \notin Marks /\ Frame("settle", Top.n).op \notin Marks
        /\ Frame("fire_demand", Top.n).op \notin Marks /\ Plain(<<Frame("fire_demand", Top.n)>>)
        /\ Plain(<<Frame("invalidate", Top.n)>>) /\ Plain(<<Frame("undirty", Top.n)>>)
    BY PlainFrames DEF Marks
  <1>5. CASE ReceiveIdle
    BY <1>1, <1>2, <1>5, PlainWhen, OrdinaryBy DEF ReceiveIdle
  <1>6. CASE ReceiveDirty
    BY <1>1, <1>2, <1>6, PlainWhen, OrdinaryBy DEF ReceiveDirty
  <1>7. CASE ReceiveSettle
    <2>1. Plain(<<Frame("maybe_run", Top.n), Frame("fire_demand", Top.n)>>)
      BY <1>4, PlainTwo
    <2> QED BY <1>1, <1>7, <2>1, PlainWhen, OrdinaryBy DEF ReceiveSettle
  <1>8. CASE ReceiveInvalidate
    BY <1>1, <1>3, <1>4, <1>8, PlainWhen, PlainCat, OrdinaryBy DEF ReceiveInvalidate
  <1>9. CASE ReceiveTerminal
    <2>1. \A f : f.op \notin Marks => Plain(<<f, Frame("fire_demand", Top.n)>>)
      BY <1>4, PlainTwo
    <2> QED BY <1>1, <1>3, <1>4, <1>9, <2>1, OrdinaryBy DEF ReceiveTerminal
  <1>10. CASE ReceiveTeardown
    BY <1>1, <1>3, <1>10, OrdinaryBy DEF ReceiveTeardown
  <1> QED BY <1>5, <1>6, <1>7, <1>8, <1>9, <1>10

(* The calls around the run of a fn.                                       *)
LEMMA RunOrdinary ==
  ASSUME StackInv,
         MaybeRun \/ TryRun \/ Passthrough \/ Settle \/ SettleRest \/ Run \/ RunEnd \/ Roll
  PROVE  Ordinary
  <1>1. Top.n \in Node /\ stack # <<>>
    BY TopNode DEF MaybeRun, TryRun, Passthrough, Settle, SettleRest, Run, RunEnd, Roll
  <1>2. \A ms : Plain(<<Call("down", Top.n, ms)>>)
    BY PlainFrames DEF Marks
  <1>3. /\ Plain(<<Frame("maybe_run", Top.n)>>) /\ Plain(<<Frame("settle_rest", Top.n)>>)
        /\ Plain(<<Frame("panic", Top.n)>>) /\ Plain(<<Frame("run_end", Top.n)>>)
        /\ Plain(<<Frame("roll", Top.n)>>) /\ Plain(<<Frame("roll_undirty", Top.n)>>)
    BY PlainFrames DEF Marks
  <1>4. Plain(RunOrRelay(Top.n))
    BY <1>1, PlainRun
  <1>5. CASE MaybeRun
    BY <1>1, <1>4, <1>5, PlainWhen, OrdinaryBy DEF MaybeRun
  <1>6. CASE TryRun
    BY <1>1, <1>4, <1>6, PlainWhen, OrdinaryBy DEF TryRun
  <1>7. CASE Passthrough
    BY <1>1, <1>2, <1>7, PlainWhen, OrdinaryBy DEF Passthrough
  <1>8. CASE Settle
    BY <1>1, <1>3, <1>8, PlainWhen, PlainCat, OrdinaryBy DEF Settle
  <1>9. CASE SettleRest
    BY <1>1, <1>2, <1>9, PlainWhen, OrdinaryBy DEF SettleRest
  <1>10. CASE Run
    <2>1. \A act \in FnActs[Top.n] : Plain(FnCalls(Top.n, act))
      BY <1>1, PlainFn
    <2> QED BY <1>1, <1>3, <1>10, <2>1, PlainCat, OrdinaryBy DEF Run
  <1>11. CASE RunEnd
    BY <1>1, <1>2, <1>3, <1>11, PlainWhen, PlainCat, OrdinaryBy DEF RunEnd
  <1>12. CASE Roll
    BY <1>1, <1>12, PlainEmpty, OrdinaryBy DEF Roll
  <1> QED BY <1>5, <1>6, <1>7, <1>8, <1>9, <1>10, <1>11, <1>12

(* The calls of up and of the pull and resume protocol.                    *)
LEMMA UpOrdinary ==
  ASSUME StackInv, AuxInv,
         UpPause \/ UpResume \/ UpPull \/ UpRequest \/ OnResume \/ ResumeSkipped
         \/ FirePull \/ PullEnd
  PROVE  Ordinary
  <1>1. Top.n \in Node /\ stack # <<>>
    BY TopNode DEF UpPause, UpResume, UpPull, UpRequest, OnResume, ResumeSkipped,
                   FirePull, PullEnd, AtUp
  <1>2. \A m : Plain(Forward(Top.n, m))
    BY <1>1, PlainForward
  <1>3. /\ Plain(<<Frame("on_resume", Top.n)>>) /\ Plain(<<Frame("fire_demand", Top.n)>>)
        /\ Plain(<<Frame("resume_skipped", Top.n)>>) /\ Plain(<<Frame("try_run", Top.n)>>)
        /\ Plain(<<Call("down", Top.n, <<Msg("INVALIDATE")>>)>>)
    BY PlainFrames DEF Marks
  <1>4. IsSeq(aux[Top.n].buffer)
    BY <1>1 DEF AuxInv
  <1>5. CASE UpPause
    BY <1>1, <1>5, PlainEmpty, OrdinaryBy DEF UpPause
  <1>6. CASE UpResume
    BY <1>1, <1>2, <1>3, <1>6, PlainWhen, PlainCat, OrdinaryBy DEF UpResume
  <1>7. CASE UpPull
    BY <1>1, <1>2, <1>3, <1>7, PlainWhen, OrdinaryBy DEF UpPull
  <1>8. CASE UpRequest
    BY <1>1, <1>2, <1>3, <1>8, PlainWhen, OrdinaryBy DEF UpRequest
  <1>9. CASE OnResume
    <2>1. Plain([k \in 1..Len(aux[Top.n].buffer) |->
                   Call("down", Top.n, aux[Top.n].buffer[k])])
      BY <1>1, <1>4, PlainReplay
    <2> QED BY <1>1, <1>3, <1>9, <2>1, PlainEmpty, PlainCat, OrdinaryBy DEF OnResume
  <1>10. CASE ResumeSkipped
    BY <1>1, <1>3, <1>10, PlainWhen, OrdinaryBy DEF ResumeSkipped
  <1>11. CASE FirePull
    <2> DEFINE buffer == aux[Top.n].buffer
               replay == IF Config[Top.n].mode = "true" THEN <<Last(buffer)>> ELSE buffer
    <2>1. IsSeq(replay)
      <3>1. <<Last(buffer)>> \in Seq({Last(buffer)})
        OBVIOUS
      <3> QED BY <1>4, <3>1 DEF IsSeq
    <2>2. Plain([k \in 1..Len(replay) |-> Call("down", Top.n, replay[k])])
      <3> HIDE DEF replay
      <3> QED BY <1>1, <2>1, PlainReplay
    <2> QED BY <1>1, <1>3, <1>11, <2>2, PlainWhen, OrdinaryBy DEF FirePull
  <1>12. CASE PullEnd
    BY <1>1, <1>12, PlainEmpty, OrdinaryBy DEF PullEnd
  <1> QED BY <1>5, <1>6, <1>7, <1>8, <1>9, <1>10, <1>11, <1>12

(* The calls of subscription, activation and deactivation.                 *)
LEMMA SubscribeOrdinary ==
  ASSUME StackInv,
         Subscribe \/ Activate \/ SubscribeDep \/ SubscribedDep \/ Produce \/ Unsubscribe
         \/ Deactivate \/ Subscribed
  PROVE  Ordinary
  <1>1. Top.n \in Node /\ stack # <<>>
    BY TopNode DEF Subscribe, Activate, SubscribeDep, SubscribedDep, Produce, Unsubscribe,
                   Deactivate, Subscribed
  <1>2. /\ Plain(<<Frame("activate", Top.n)>>) /\ Plain(<<Frame("produce", Top.n)>>)
        /\ Plain(<<Frame("panic", Top.n)>>) /\ Plain(<<Frame("run", Top.n)>>)
        /\ Plain(<<Frame("deactivate", Top.n)>>)
    BY PlainFrames DEF Marks
  <1>3. CASE Subscribe
    <2>2. \A m : Plain(<<ToSubscriber(Top.n, Top.by, Top.i, m)>>)
      BY PlainSubscriber, PlainOne
    <2> QED BY <1>1, <1>2, <1>3, <2>2, PlainEmpty, PlainWhen, PlainCat, OrdinaryBy DEF Subscribe
  <1>4. CASE Activate
    <2>1. Plain([i \in DepIdx(Top.n) |-> OfSubscriber("subscribe_dep", Top.n, Top.n, i)])
      BY <1>1, PlainEdges
    <2> QED BY <1>1, <1>2, <1>4, <2>1, PlainEmpty, PlainCat, OrdinaryBy DEF Activate
  <1>5. CASE SubscribeDep
    <2>1. Plain(<<OfSubscriber("subscribe", Deps[Top.n][Top.i], Top.n, Top.i),
                  OfSubscriber("subscribed_dep", Top.n, Top.n, Top.i)>>)
      <3>1. \A n, by, i : /\ OfSubscriber("subscribe", n, by, i).op \notin Marks
                          /\ OfSubscriber("subscribed_dep", n, by, i).op \notin Marks
        BY PlainFrames DEF Marks
      <3> QED BY <3>1, PlainTwo
    <2> QED BY <1>1, <1>5, <2>1, OrdinaryBy DEF SubscribeDep
  <1>6. CASE SubscribedDep
    BY <1>1, <1>2, <1>6, PlainEmpty, OrdinaryBy DEF SubscribedDep
  <1>7. CASE Produce
    BY <1>1, <1>2, <1>7, PlainWhen, OrdinaryBy DEF Produce
  <1>8. CASE Unsubscribe
    BY <1>1, <1>2, <1>8, PlainEmpty, PlainWhen, OrdinaryBy DEF Unsubscribe
  <1>9. CASE Deactivate
    <2> DEFINE H == [i \in DepIdx(Top.n) |-> IF i \in aux[Top.n].unsubs THEN i ELSE NoHandle]
               frames == [i \in DepIdx(Top.n) |->
                             OfSubscriber("unsubscribe", Deps[Top.n][i], Top.n,
                                          IF i \in aux[Top.n].unsubs THEN i ELSE NoHandle)]
    <2>1. Plain([i \in DepIdx(Top.n) |->
                   OfSubscriber("unsubscribe", Deps[Top.n][i], Top.n, H[i])])
      <3> HIDE DEF H
      <3> QED BY <1>1, PlainEdges
    <2>2. Plain(frames)
      BY <2>1
    <2>3. Calls(frames)
      BY <1>9 DEF Deactivate
    <2> HIDE DEF frames
    <2> QED BY <1>1, <2>2, <2>3, OrdinaryBy
  <1>10. CASE Subscribed
    BY <1>1, <1>10, PlainEmpty, OrdinaryBy DEF Subscribed
  <1> QED BY <1>3, <1>4, <1>5, <1>6, <1>7, <1>8, <1>9, <1>10

(* The calls of external sinks, of wave owners and of batches.             *)
LEMMA OwnerOrdinary ==
  ASSUME Sink \/ OwnedDown \/ OwnerEnd \/ Recovered \/ CommitTarget \/ RollbackTarget
         \/ CloseBatch
  PROVE  Ordinary
  <1>1. stack # <<>>
    BY DEF Sink, OwnedDown, OwnerEnd, Recovered, CommitTarget, RollbackTarget, CloseBatch, At
  <1>2. \A ms : Plain(<<Call("down", Top.n, ms)>>) /\ Plain(<<Call("owned_down", Top.n, ms)>>)
    BY PlainFrames DEF Marks
  <1>3. Plain(<<Frame("panic", Top.n)>>) /\ Plain(<<Frame("owner_end", Top.n)>>)
    BY PlainFrames DEF Marks
  <1>4. CASE Sink
    <2>1. \A t \in Does.observed : Plain(<<OfSubscriber("unsubscribe", t, Ext, 1)>>)
      BY PlainFrames DEF Marks
    <2> QED BY <1>1, <1>3, <1>4, <2>1, PlainEmpty, OrdinaryBy DEF Sink
  <1>5. CASE OwnedDown
    BY <1>1, <1>2, <1>3, <1>5, PlainWhen, PlainCat, OrdinaryBy DEF OwnedDown
  <1>6. CASE OwnerEnd
    BY <1>1, <1>6, PlainEmpty, OrdinaryBy DEF OwnerEnd
  <1>7. CASE Recovered
    BY <1>1, <1>7, PlainEmpty, OrdinaryBy DEF Recovered
  <1>8. CASE CommitTarget
    BY <1>1, <1>2, <1>8, OrdinaryBy DEF CommitTarget
  <1>9. CASE RollbackTarget
    BY <1>1, <1>2, <1>9, PlainWhen, OrdinaryBy DEF RollbackTarget
  <1>10. CASE CloseBatch
    BY <1>1, <1>10, PlainEmpty, OrdinaryBy DEF CloseBatch
  <1> QED BY <1>4, <1>5, <1>6, <1>7, <1>8, <1>9, <1>10

-----------------------------------------------------------------------------
(* What the handlers leave alone of the guards' state.                     *)

InsideShape ==
    /\ DOMAIN wave = Node
    /\ \A n \in Node : "inside" \in DOMAIN wave[n] /\ wave[n].inside \in BOOLEAN
PullShape ==
    /\ DOMAIN aux = Node
    /\ \A n \in Node :
         /\ {"pulling", "pullDirty"} \subseteq DOMAIN aux[n]
         /\ aux[n].pulling \in BOOLEAN /\ aux[n].pullDirty \in BOOLEAN
ScopeShape ==
    {"on", "touched", "blamed"} \subseteq DOMAIN scope /\ scope.on \in BOOLEAN

\* No node enters or leaves its fn.
InsideKept == InsideShape' /\ \A n \in Node : wave'[n].inside = wave[n].inside
\* No node begins to serve a pull.
PullKept ==
    /\ PullShape'
    /\ \A n \in Node : /\ aux'[n].pulling => aux[n].pulling
                       /\ aux'[n].pullDirty => aux[n].pullDirty
\* A wave is owned as before.
ScopeKept == ScopeShape' /\ scope'.on = scope.on /\ (~scope.on => scope' = scope)

(* The handlers that leave NodeWaveState alone, but for other flags.       *)
LEMMA InsideSame ==
  ASSUME InsideShape, UNCHANGED wave
  PROVE  InsideKept
  BY DEF InsideShape, InsideKept

(* A flag of a node that is not inside_run_wave.                           *)
LEMMA InsideFlag ==
  ASSUME InsideShape, NEW n, NEW x,
         \/ wave' = [wave EXCEPT ![n].dirtyOut = x] \/ wave' = [wave EXCEPT ![n].tier3 = x]
         \/ wave' = [wave EXCEPT ![n].owed = x]
  PROVE  InsideKept
  BY DEF InsideShape, InsideKept

(* Two flags of a node.                                                    *)
LEMMA InsideFlags ==
  ASSUME InsideShape, NEW n, NEW x, NEW y,
         \/ wave' = [wave EXCEPT ![n].dirtyOut = x, ![n].tier3 = y]
         \/ wave' = [wave EXCEPT ![n].tier3 = x, ![n].dirtyOut = y]
  PROVE  InsideKept
  BY DEF InsideShape, InsideKept

(* No handler but run_wave sets or clears inside_run_wave.                 *)
LEMMA StepInside ==
  ASSUME InsideShape, Step
  PROVE  InsideKept \/ Run \/ RunEnd \/ Panic
  <1>1. CASE DownTerminated \/ Enter \/ Finish \/ Drain \/ ApplyDeferred \/ MsgInvalidate
             \/ MsgTerminal \/ MsgTeardown \/ ReceiveIdle \/ ReceiveSettle
             \/ ReceiveInvalidate \/ ReceiveTerminal \/ ReceiveTeardown
    BY <1>1, InsideSame DEF DownTerminated, Enter, Finish, Drain, ApplyDeferred, MsgInvalidate,
         MsgTerminal, MsgTeardown, ReceiveIdle, ReceiveSettle, ReceiveInvalidate,
         ReceiveTerminal, ReceiveTeardown
  <1>2. CASE MaybeRun \/ TryRun \/ Passthrough \/ Settle \/ SettleRest \/ UpPause \/ UpResume
             \/ UpPull \/ UpRequest \/ OnResume \/ ResumeSkipped \/ FireDemand \/ PullEnd
    BY <1>2, InsideSame DEF MaybeRun, TryRun, Passthrough, Settle, SettleRest, UpPause, UpResume,
         UpPull, UpRequest, OnResume, ResumeSkipped, FireDemand, PullEnd
  <1>3. CASE Subscribe \/ Activate \/ SubscribeDep \/ SubscribedDep \/ Produce \/ Unsubscribe
             \/ Sink \/ OwnedDown \/ OwnerEnd \/ Recovered \/ CloseBatch \/ Subscribed
    BY <1>3, InsideSame DEF Subscribe, Activate, SubscribeDep, SubscribedDep, Produce,
         Unsubscribe, Sink, OwnedDown, OwnerEnd, Recovered, CloseBatch, Subscribed
  <1>4. CASE DownIntoBatch \/ Owe \/ MsgDirty \/ MsgData \/ MsgResolved
    BY <1>4, InsideFlag DEF DownIntoBatch, Owe, MsgDirty, MsgData, MsgResolved
  <1>5. CASE Undirty \/ Deactivate \/ CommitTarget \/ RollbackTarget \/ ReceiveDirty
    BY <1>5, InsideFlag DEF Undirty, Deactivate, CommitTarget, RollbackTarget, ReceiveDirty
  <1>6. CASE FirePull
    BY <1>6, InsideFlag, InsideSame DEF FirePull
  <1>7. CASE DownNow
    BY <1>7 DEF DownNow, InsideShape, InsideKept
  <1>8. CASE Reset
    BY <1>8, InsideFlags DEF Reset
  <1>9. CASE Roll
    BY <1>9, InsideFlags, InsideSame DEF Roll
  <1> QED BY <1>1, <1>2, <1>3, <1>4, <1>5, <1>6, <1>7, <1>8, <1>9 DEF Step

(* A wave is owned as before, be a node registered with it.                *)
LEMMA ScopeSame ==
  ASSUME ScopeShape, NEW n, UNCHANGED scope \/ Touch(n)
  PROVE  ScopeKept
  BY DEF ScopeShape, ScopeKept, Touch

(* Only the wave's owner opens or closes its scope.                        *)
LEMMA StepScope ==
  ASSUME ScopeShape, Step
  PROVE  ScopeKept \/ OwnedDown \/ OwnerEnd \/ Panic
  <1>1. CASE DownTerminated \/ DownIntoBatch \/ Owe \/ DownNow \/ Enter \/ Finish \/ Drain
             \/ ApplyDeferred \/ Reset
    BY <1>1, ScopeSame DEF DownTerminated, DownIntoBatch, Owe, DownNow, Enter, Finish, Drain,
         ApplyDeferred, Reset
  <1>2. CASE MsgDirty \/ MsgData \/ MsgResolved \/ MsgInvalidate \/ MsgTerminal \/ MsgTeardown
    BY <1>2, ScopeSame DEF MsgDirty, MsgData, MsgResolved, MsgInvalidate, MsgTerminal, MsgTeardown
  <1>3. CASE ReceiveIdle \/ ReceiveDirty \/ ReceiveSettle \/ ReceiveInvalidate \/ Undirty
             \/ ReceiveTerminal \/ ReceiveTeardown
    BY <1>3, ScopeSame DEF ReceiveIdle, ReceiveDirty, ReceiveSettle, ReceiveInvalidate, Undirty,
         ReceiveTerminal, ReceiveTeardown
  <1>4. CASE MaybeRun \/ TryRun \/ Passthrough \/ Settle \/ SettleRest \/ RunEnd \/ Roll
    BY <1>4, ScopeSame DEF MaybeRun, TryRun, Passthrough, Settle, SettleRest, RunEnd, Roll
  <1>5. CASE Run
    BY <1>5, ScopeSame DEF Run, ScopeShape, ScopeKept
  <1>6. CASE UpPause \/ UpResume \/ UpPull \/ UpRequest \/ OnResume \/ ResumeSkipped
             \/ FireDemand \/ FirePull \/ PullEnd
    BY <1>6, ScopeSame DEF UpPause, UpResume, UpPull, UpRequest, OnResume, ResumeSkipped,
         FireDemand, FirePull, PullEnd
  <1>7. CASE Subscribe \/ Activate \/ SubscribeDep \/ SubscribedDep \/ Produce \/ Unsubscribe
             \/ Deactivate \/ Sink
    BY <1>7, ScopeSame DEF Subscribe, Activate, SubscribeDep, SubscribedDep, Produce,
         Unsubscribe, Deactivate, Sink
  <1>8. CASE Recovered \/ CommitTarget \/ RollbackTarget \/ CloseBatch \/ Subscribed
    BY <1>8, ScopeSame DEF Recovered, CommitTarget, RollbackTarget, CloseBatch, Subscribed
  <1> QED BY <1>1, <1>2, <1>3, <1>4, <1>5, <1>6, <1>7, <1>8 DEF Step

(* A node that serves no pull stays so when other fields change.           *)
LEMMA PullSame ==
  ASSUME PullShape, UNCHANGED aux
  PROVE  PullKept
  BY DEF PullShape, PullKept

(* One other field.                                                        *)
LEMMA PullField ==
  ASSUME PullShape, NEW n, NEW x,
         \/ aux' = [aux EXCEPT ![n].buffer = x] \/ aux' = [aux EXCEPT ![n].skipped = x]
         \/ aux' = [aux EXCEPT ![n].locks = x] \/ aux' = [aux EXCEPT ![n].demand = x]
         \/ aux' = [aux EXCEPT ![n].ran = x] \/ aux' = [aux EXCEPT ![n].unsubs = x]
  PROVE  PullKept
  BY DEF PullShape, PullKept

(* A node that is quiesced.                                                *)
LEMMA PullQuiesced ==
  ASSUME PullShape, NEW n, aux' = [aux EXCEPT ![n] = Quiesced(@)]
  PROVE  PullKept
  BY DEF PullShape, PullKept, Quiesced

(* No handler but that of a pull demand begins to serve a pull.            *)
LEMMA StepPull ==
  ASSUME PullShape, Step
  PROVE  PullKept \/ FireDemand \/ FirePull \/ PullEnd \/ Panic
  <1>1. CASE DownTerminated \/ DownIntoBatch \/ Owe \/ Enter \/ Finish \/ Drain
             \/ ApplyDeferred \/ Reset
    BY <1>1, PullSame DEF DownTerminated, DownIntoBatch, Owe, Enter, Finish, Drain,
         ApplyDeferred, Reset
  <1>2. CASE MsgDirty \/ MsgData \/ MsgResolved \/ MsgInvalidate \/ MsgTeardown
    BY <1>2, PullSame DEF MsgDirty, MsgData, MsgResolved, MsgInvalidate, MsgTeardown
  <1>3. CASE ReceiveIdle \/ ReceiveDirty \/ Undirty \/ ReceiveTerminal \/ ReceiveTeardown
    BY <1>3, PullSame DEF ReceiveIdle, ReceiveDirty, Undirty, ReceiveTerminal, ReceiveTeardown
  <1>4. CASE TryRun \/ Passthrough \/ Settle \/ SettleRest \/ RunEnd \/ Roll \/ UpRequest
    BY <1>4, PullSame DEF TryRun, Passthrough, Settle, SettleRest, RunEnd, Roll, UpRequest
  <1>5. CASE Subscribe \/ SubscribeDep \/ Produce \/ Unsubscribe \/ Sink \/ OwnedDown
             \/ OwnerEnd \/ Recovered \/ CommitTarget \/ RollbackTarget \/ CloseBatch \/ Subscribed
    BY <1>5, PullSame DEF Subscribe, SubscribeDep, Produce, Unsubscribe, Sink, OwnedDown,
         OwnerEnd, Recovered, CommitTarget, RollbackTarget, CloseBatch, Subscribed
  <1>6. CASE DownNow
    BY <1>6, PullSame, PullField DEF DownNow
  <1>7. CASE ReceiveSettle \/ ReceiveInvalidate \/ MaybeRun \/ ResumeSkipped
    BY <1>7, PullField DEF ReceiveSettle, ReceiveInvalidate, MaybeRun, ResumeSkipped
  <1>8. CASE UpPause \/ UpResume \/ UpPull
    BY <1>8, PullField DEF UpPause, UpResume, UpPull
  <1>9. CASE Run
    BY <1>9, PullSame, PullField DEF Run
  <1>10. CASE SubscribedDep
    BY <1>10, PullSame, PullField DEF SubscribedDep
  <1>11. CASE Activate
    BY <1>11, PullSame DEF Activate, PullShape, PullKept
  <1>12. CASE MsgTerminal
    BY <1>12, PullSame, PullQuiesced DEF MsgTerminal
  <1>13. CASE OnResume
    BY <1>13, PullField, PullQuiesced DEF OnResume
  <1>14. CASE Deactivate
    BY <1>14 DEF Deactivate, Quiesced, PullShape, PullKept
  <1> QED BY <1>1, <1>2, <1>3, <1>4, <1>5, <1>6, <1>7, <1>8, <1>9, <1>10, <1>11, <1>12,
             <1>13, <1>14 DEF Step

(* The depth changes only in the delivery guard and when a panic unwinds,  *)
(* and an action is deferred only inside a delivery.                       *)
LEMMA StepDelivery ==
  ASSUME Step
  PROVE  \/ Enter \/ Finish \/ Panic
         \/ /\ depth' = depth
            /\ deferred' = deferred \/ deferred' = NoDeferred \/ depth > 0
  <1>1. CASE DownTerminated \/ DownIntoBatch \/ Owe \/ DownNow \/ Drain \/ ApplyDeferred \/ Reset
    BY <1>1 DEF DownTerminated, DownIntoBatch, Owe, DownNow, Drain, ApplyDeferred, Reset, delivery
  <1>2. CASE MsgDirty \/ MsgData \/ MsgResolved \/ MsgInvalidate \/ MsgTerminal \/ MsgTeardown
    BY <1>2 DEF MsgDirty, MsgData, MsgResolved, MsgInvalidate, MsgTerminal, MsgTeardown, delivery
  <1>3. CASE ReceiveIdle \/ ReceiveDirty \/ ReceiveSettle \/ ReceiveInvalidate \/ Undirty
             \/ ReceiveTerminal \/ ReceiveTeardown
    BY <1>3 DEF ReceiveIdle, ReceiveDirty, ReceiveSettle, ReceiveInvalidate, Undirty,
         ReceiveTerminal, ReceiveTeardown, delivery
  <1>4. CASE MaybeRun \/ TryRun \/ Passthrough \/ Settle \/ SettleRest \/ Run \/ RunEnd \/ Roll
    BY <1>4 DEF MaybeRun, TryRun, Passthrough, Settle, SettleRest, Run, RunEnd, Roll, delivery
  <1>5. CASE UpPause \/ UpResume \/ UpPull \/ UpRequest \/ OnResume \/ ResumeSkipped
             \/ FireDemand \/ FirePull \/ PullEnd
    BY <1>5 DEF UpPause, UpResume, UpPull, UpRequest, OnResume, ResumeSkipped,
         FireDemand, FirePull, PullEnd, delivery
  <1>6. CASE Subscribe \/ Activate \/ SubscribeDep \/ SubscribedDep \/ Produce \/ Unsubscribe
             \/ Deactivate \/ Sink
    BY <1>6 DEF Subscribe, Activate, SubscribeDep, SubscribedDep, Produce,
         Unsubscribe, Deactivate, Sink, delivery
  <1>7. CASE OwnedDown \/ OwnerEnd \/ Recovered \/ CommitTarget \/ RollbackTarget \/ CloseBatch
             \/ Subscribed
    BY <1>7 DEF OwnedDown, OwnerEnd, Recovered, CommitTarget, RollbackTarget, CloseBatch,
         Subscribed, delivery
  <1> QED BY <1>1, <1>2, <1>3, <1>4, <1>5, <1>6, <1>7 DEF Step

(* The guards' own calls are handled by the guards.                        *)
LEMMA TopDecides ==
  ASSUME Step
  PROVE  \/ stack # <<>> /\ Top.op \notin Marks \cup Ends
         \/ Enter /\ stack # <<>> /\ Top.op = "enter"
         \/ Finish /\ stack # <<>> /\ Top.op = "finish"
         \/ Drain /\ stack # <<>> /\ Top.op = "drain"
         \/ RunEnd /\ stack # <<>> /\ Top.op = "run_end"
         \/ FirePull /\ stack # <<>> /\ Top.op = "fire_pull"
         \/ PullEnd /\ stack # <<>> /\ Top.op = "pull_end"
         \/ OwnerEnd /\ stack # <<>> /\ Top.op = "owner_end"
  <1> USE DEF At, Top, Marks, Ends
  <1>1. CASE DownTerminated \/ DownIntoBatch \/ Owe \/ DownNow \/ ApplyDeferred \/ Reset
    BY <1>1 DEF DownTerminated, DownIntoBatch, Owe, DownNow, ApplyDeferred, Reset
  <1>2. CASE MsgDirty \/ MsgData \/ MsgResolved \/ MsgInvalidate \/ MsgTerminal \/ MsgTeardown
    BY <1>2 DEF MsgDirty, MsgData, MsgResolved, MsgInvalidate, MsgTerminal, MsgTeardown, AtMsg
  <1>3. CASE ReceiveIdle \/ ReceiveDirty \/ ReceiveSettle \/ ReceiveInvalidate \/ Undirty
             \/ ReceiveTerminal \/ ReceiveTeardown
    BY <1>3 DEF ReceiveIdle, ReceiveDirty, ReceiveSettle, ReceiveInvalidate, Undirty,
         ReceiveTerminal, ReceiveTeardown, AtReceive
  <1>4. CASE MaybeRun \/ TryRun \/ Passthrough \/ Settle \/ SettleRest \/ Run \/ Roll
    BY <1>4 DEF MaybeRun, TryRun, Passthrough, Settle, SettleRest, Run, Roll
  <1>5. CASE UpPause \/ UpResume \/ UpPull \/ UpRequest \/ OnResume \/ ResumeSkipped
             \/ FireDemand
    BY <1>5 DEF UpPause, UpResume, UpPull, UpRequest, OnResume, ResumeSkipped, FireDemand, AtUp
  <1>6. CASE Subscribe \/ Activate \/ SubscribeDep \/ SubscribedDep \/ Produce \/ Unsubscribe
             \/ Deactivate \/ Sink
    BY <1>6 DEF Subscribe, Activate, SubscribeDep, SubscribedDep, Produce,
         Unsubscribe, Deactivate, Sink
  <1>7. CASE OwnedDown \/ Recovered \/ CommitTarget \/ RollbackTarget \/ CloseBatch
             \/ Subscribed \/ Panic
    BY <1>7 DEF OwnedDown, Recovered, CommitTarget, RollbackTarget, CloseBatch, Subscribed, Panic
  <1>8. CASE Enter \/ Finish \/ Drain \/ RunEnd \/ FirePull \/ PullEnd \/ OwnerEnd
    <2>1. /\ (Enter => At("enter")) /\ (Finish => At("finish")) /\ (Drain => At("drain"))
          /\ (RunEnd => At("run_end")) /\ (FirePull => At("fire_pull"))
          /\ (PullEnd => At("pull_end")) /\ (OwnerEnd => At("owner_end"))
      BY DEF Enter, Finish, Drain, RunEnd, FirePull, PullEnd, OwnerEnd
    <2> QED BY <1>8, <2>1
  <1> QED BY <1>1, <1>2, <1>3, <1>4, <1>5, <1>6, <1>7, <1>8 DEF Step

(* All handlers but three make calls that open no scope and start no pull. *)
LEMMA StepOrdinary ==
  ASSUME Inv, Step
  PROVE  Ordinary \/ DownNow \/ FireDemand \/ Panic
  BY DownOrdinary, DeliveryOrdinary, MsgOrdinary, ReceiveOrdinary, RunOrdinary, UpOrdinary,
     SubscribeOrdinary, OwnerOrdinary DEF Step, Inv

(* No scope is closed that was not opened.                                 *)
LEMMA BalanceNat ==
  ASSUME NEW s, IsSeq(s), Nested(s)
  PROVE  Balance(s) \in Nat
  <1> DEFINE F == Places(s, "finish")
             E == Places(s, "enter")
             g == [p \in E |-> p - 2]
  <1>1. /\ Len(s) \in Nat /\ F \subseteq 1..Len(s) /\ E \subseteq 1..Len(s)
        /\ IsFiniteSet(F) /\ IsFiniteSet(E) /\ Cardinality(F) \in Nat /\ Cardinality(E) \in Nat
    BY PlacesFinite
  <1>2. g \in [E -> F]
    BY DEF Nested
  <1>3. \A p, q \in E : p # q => g[p] # g[q]
    BY <1>1
  <1>4. g \in Injection(E, F)
    BY <1>2, <1>3 DEF Injection, IsInjective
  <1>5. Cardinality(E) <= Cardinality(F)
    <2> HIDE DEF g
    <2> QED BY <1>1, <1>4, FS_Injection
  <1> QED BY <1>1, <1>5 DEF Balance

(* A stack of well-formed calls is a sequence.                             *)
LEMMA StackIsSeq ==
  ASSUME StackInv
  PROVE  IsSeq(stack)
  BY DEF StackInv, Good, IsSeq

(* What such calls do to the stack.                                        *)
LEMMA OrdinaryStack ==
  ASSUME IsSeq(stack), Nested(stack), FirePullNext, Ordinary
  PROVE  /\ Nested(stack') /\ Balance(stack') = Balance(Tail(stack)) /\ FirePullNext'
         /\ \A op : Top.op # op => Held(stack, op) \subseteq Held(stack', op)
  <1>1. PICK frames : Plain(frames) /\ Calls(frames) /\ stack # <<>>
    BY DEF Ordinary
  <1>2. IsSeq(Tail(stack)) /\ Nested(Tail(stack))
    BY <1>1, BalanceTail
  <1>3. /\ Balance(frames \o Tail(stack)) = Balance(Tail(stack))
        /\ Nested(frames \o Tail(stack))
    BY <1>1, <1>2, BalancePlain
  <1>4. Nested(stack') /\ Balance(stack') = Balance(Tail(stack))
    BY <1>1, <1>3 DEF Calls
  <1>5. IsSeq(frames)
    BY <1>1 DEF Plain, IsSeq
  <1>6. \A op : Top.op # op => Held(stack, op) \subseteq Held(stack', op)
    BY <1>1, <1>5, HeldKept
  <1>7. PICK F : frames \in Seq(F) /\ \A f \in F : f.op \notin Marks
    BY <1>1 DEF Plain
  <1>8. PICK S : stack \in Seq(S)
    BY DEF IsSeq
  <1>9. ASSUME NEW k \in 1..Len(stack') PROVE stack'[k].op # "fire_pull"
    <2> DEFINE u == Tail(stack)
               V == F \cup S
    <2>1. u \in Seq(S) /\ Len(u) = Len(stack) - 1 /\ Len(stack) \in Nat
          /\ \A j \in 1..Len(u) : u[j] = stack[j + 1]
      BY <1>1, <1>8
    <2>2. frames \in Seq(V) /\ u \in Seq(V) /\ stack' = frames \o u
      BY <1>1, <1>7, <2>1 DEF Calls
    <2> HIDE DEF u, V
    <2>3. /\ Len(stack') = Len(frames) + Len(u) /\ Len(frames) \in Nat /\ Len(u) \in Nat
          /\ \A j \in 1..Len(frames) : stack'[j] = frames[j]
          /\ \A j \in 1..Len(u) : stack'[Len(frames) + j] = u[j]
      BY <2>2, CatIndex
    <2>4. CASE k \in 1..Len(frames)
      <3>1. frames[k] \in F
        BY <1>7, <2>4
      <3> QED BY <1>7, <2>3, <2>4, <3>1 DEF Marks
    <2>5. CASE k \notin 1..Len(frames)
      <3> DEFINE j == k - Len(frames)
      <3>1. j \in 1..Len(u) /\ Len(frames) + j = k /\ j + 1 \in 1..Len(stack) /\ j + 1 # 1
        BY <2>1, <2>3, <2>5
      <3>2. stack'[Len(frames) + j] = u[j] /\ u[j] = stack[j + 1]
        BY <2>1, <2>3, <3>1
      <3>3. stack'[k] = stack[j + 1]
        BY <3>1, <3>2
      <3> QED BY <3>1, <3>3 DEF FirePullNext
    <2> QED BY <2>4, <2>5
  <1>10. FirePullNext'
    BY <1>9 DEF FirePullNext
  <1> QED BY <1>4, <1>6, <1>10

-----------------------------------------------------------------------------
(* Sending a wave, and serving a pull.                                     *)

(* Three calls put on a stack at once are put there one after the other.   *)
LEMMA CatThree ==
  ASSUME NEW V, NEW e \in V, NEW m \in V, NEW f \in V, NEW w \in Seq(V)
  PROVE  <<e, m, f>> \o w = <<e>> \o (<<m>> \o (<<f>> \o w))
  <1> DEFINE t == <<e, m, f>>
             te == <<e>>
             tm == <<m>>
             tf == <<f>>
             x == t \o w
             a == tf \o w
             b == tm \o a
             c == te \o b
  <1>1. /\ t \in Seq(V) /\ te \in Seq(V) /\ tm \in Seq(V) /\ tf \in Seq(V)
    OBVIOUS
  <1>2. /\ Len(t) = 3 /\ Len(te) = 1 /\ Len(tm) = 1 /\ Len(tf) = 1
        /\ t[1] = e /\ t[2] = m /\ t[3] = f /\ te[1] = e /\ tm[1] = m /\ tf[1] = f
    OBVIOUS
  <1> HIDE DEF t, te, tm, tf
  <1>3. /\ a \in Seq(V) /\ Len(a) = Len(tf) + Len(w) /\ Len(w) \in Nat
        /\ \A k \in 1..Len(tf) : a[k] = tf[k]
        /\ \A k \in 1..Len(w) : a[Len(tf) + k] = w[k]
    BY <1>1, CatIndex
  <1> HIDE DEF a
  <1>4. /\ b \in Seq(V) /\ Len(b) = Len(tm) + Len(a)
        /\ \A k \in 1..Len(tm) : b[k] = tm[k]
        /\ \A k \in 1..Len(a) : b[Len(tm) + k] = a[k]
    <2>1. a \in Seq(V)
      BY <1>3
    <2> QED BY <1>1, <2>1, CatIndex
  <1> HIDE DEF b
  <1>5. /\ c \in Seq(V) /\ Len(c) = Len(te) + Len(b)
        /\ \A k \in 1..Len(te) : c[k] = te[k]
        /\ \A k \in 1..Len(b) : c[Len(te) + k] = b[k]
    <2>1. b \in Seq(V)
      BY <1>4
    <2> QED BY <1>1, <2>1, CatIndex
  <1> HIDE DEF c
  <1>6. /\ x \in Seq(V) /\ Len(x) = Len(t) + Len(w)
        /\ \A k \in 1..Len(t) : x[k] = t[k]
        /\ \A k \in 1..Len(w) : x[Len(t) + k] = w[k]
    BY <1>1, CatIndex
  <1> HIDE DEF x
  <1>7. Len(x) = 3 + Len(w) /\ Len(c) = 3 + Len(w)
    BY <1>2, <1>3, <1>4, <1>5, <1>6
  <1>8. x[1] = e /\ x[2] = m /\ x[3] = f /\ \A k \in 1..Len(w) : x[3 + k] = w[k]
    BY <1>2, <1>6
  <1>9. a[1] = f /\ \A k \in 1..Len(w) : a[1 + k] = w[k]
    BY <1>2, <1>3
  <1>10. b[1] = m /\ b[2] = f /\ \A k \in 1..Len(w) : b[2 + k] = w[k]
    <2>1. \A k \in 1..(Len(w) + 1) : b[1 + k] = a[k]
      BY <1>2, <1>3, <1>4
    <2>2. \A k \in 1..Len(w) : b[1 + (1 + k)] = a[1 + k]
      <3> TAKE k \in 1..Len(w)
      <3>1. 1 + k \in 1..(Len(w) + 1)
        BY <1>3
      <3> QED BY <2>1, <3>1
    <2>3. b[1 + 1] = a[1]
      BY <1>3, <2>1
    <2> QED BY <1>2, <1>3, <1>4, <1>9, <2>2, <2>3
  <1>11. c[1] = e /\ c[2] = m /\ c[3] = f /\ \A k \in 1..Len(w) : c[3 + k] = w[k]
    <2>1. \A k \in 1..(Len(w) + 2) : c[1 + k] = b[k]
      BY <1>2, <1>3, <1>4, <1>5
    <2>2. \A k \in 1..Len(w) : c[1 + (2 + k)] = b[2 + k]
      <3> TAKE k \in 1..Len(w)
      <3>1. 2 + k \in 1..(Len(w) + 2)
        BY <1>3
      <3> QED BY <2>1, <3>1
    <2>3. c[1 + 1] = b[1] /\ c[1 + 2] = b[2]
      BY <1>3, <2>1
    <2> QED BY <1>2, <1>5, <1>10, <2>2, <2>3
  <1>12. ASSUME NEW k \in 1..Len(x) PROVE x[k] = c[k]
    <2>1. CASE k \in 1..3
      BY <1>8, <1>11, <2>1
    <2>2. CASE k \notin 1..3
      <3>1. k - 3 \in 1..Len(w) /\ 3 + (k - 3) = k
        BY <1>3, <1>7, <2>2
      <3>2. x[3 + (k - 3)] = w[k - 3] /\ c[3 + (k - 3)] = w[k - 3]
        BY <1>8, <1>11, <3>1
      <3> QED BY <3>1, <3>2
    <2> QED BY <2>1, <2>2
  <1>13. x \in Seq(V) /\ c \in Seq(V) /\ Len(x) = Len(c)
    BY <1>5, <1>6, <1>7
  <1>14. x = c
    BY <1>12, <1>13
  <1> QED BY <1>14 DEF x, c, b, a, t, te, tm, tf

(* A wave is sent inside one delivery scope.                               *)
LEMMA SendStack ==
  ASSUME IsSeq(stack), stack # <<>>, Nested(stack), FirePullNext, Top.op \notin Marks,
         NEW D, Plain(D), NEW R, Plain(R), NEW e, NEW m, NEW f,
         e.op = "enter", m.op = "msg", f.op = "finish",
         Calls(D \o (<<e, m, f>> \o R))
  PROVE  /\ Nested(stack') /\ Balance(stack') = Balance(Tail(stack)) /\ FirePullNext'
         /\ \A op : Top.op # op => Held(stack, op) \subseteq Held(stack', op)
  <1> DEFINE u == Tail(stack)
             w == R \o u
             s == <<e>> \o (<<m>> \o (<<f>> \o w))
             frames == D \o (<<e, m, f>> \o R)
  <1>1. IsSeq(u) /\ Nested(u) /\ Len(stack) = Len(u) + 1
    BY BalanceTail, TopAndTail
  <1>2. IsSeq(w) /\ Nested(w) /\ Balance(w) = Balance(u)
    <2> HIDE DEF u
    <2> QED BY <1>1, BalancePlain
  <1>3. IsSeq(s) /\ Nested(s) /\ Balance(s) = Balance(w)
    <2> HIDE DEF w
    <2> QED BY <1>2, BalanceSend
  <1>4. Nested(D \o s) /\ Balance(D \o s) = Balance(s)
    <2> HIDE DEF s
    <2> QED BY <1>3, BalancePlain
  <1>5. PICK A : D \in Seq(A) /\ \A x \in A : x.op \notin Marks
    BY DEF Plain
  <1>6. PICK B : R \in Seq(B) /\ \A x \in B : x.op \notin Marks
    BY DEF Plain
  <1>7. PICK C : stack \in Seq(C)
    BY DEF IsSeq
  <1> DEFINE V == (A \cup B) \cup (C \cup {e, m, f})
  <1>8. D \in Seq(V) /\ R \in Seq(V) /\ stack \in Seq(V) /\ u \in Seq(V)
    BY <1>5, <1>6, <1>7
  <1>9. e \in V /\ m \in V /\ f \in V
    OBVIOUS
  <1> HIDE DEF V
  <1>11. frames \o u = D \o s
    <2> HIDE DEF u
    <2>1. frames \o u = D \o ((<<e, m, f>> \o R) \o u)
      BY SMTT(30), <1>8, <1>9
    <2>2. (<<e, m, f>> \o R) \o u = <<e, m, f>> \o w
      BY <1>8, <1>9
    <2>3. <<e, m, f>> \o w = s
      <3>1. w \in Seq(V)
        BY <1>8
      <3> HIDE DEF w
      <3> QED BY SMTT(30), <1>9, <3>1, CatThree
    <2> QED BY <2>1, <2>2, <2>3
  <1>12. IsSeq(frames)
    <2>1. frames \in Seq(V)
      BY <1>8, <1>9
    <2> QED BY <2>1 DEF IsSeq
  <1>13. Nested(stack') /\ Balance(stack') = Balance(Tail(stack))
    <2>1. stack' = D \o s
      BY <1>11 DEF Calls
    <2> QED BY <1>2, <1>3, <1>4, <2>1
  <1>14. \A op : Top.op # op => Held(stack, op) \subseteq Held(stack', op)
    <2> HIDE DEF frames
    <2>1. Calls(frames)
      BY DEF frames
    <2> QED BY <1>12, <2>1, HeldKept
  <1>15. ASSUME NEW x \in V, x.op = "fire_pull" PROVE x \in C
    BY <1>5, <1>6, <1>15 DEF V, Marks
  <1>16. FirePullNext'
    <2>1. ASSUME NEW k \in 1..Len(frames) PROVE frames[k].op # "fire_pull"
      <3> DEFINE X == (A \cup B) \cup {e, m, f}
      <3>1. \A x \in X : x.op # "fire_pull"
        BY <1>5, <1>6 DEF Marks
      <3>2. D \in Seq(X) /\ R \in Seq(X) /\ e \in X /\ m \in X /\ f \in X
        BY <1>5, <1>6
      <3> HIDE DEF X
      <3>3. frames \in Seq(X)
        BY <3>2
      <3> QED BY <3>1, <3>3
    <2>2. frames \in Seq(V)
      BY <1>8, <1>9
    <2>3. \A j \in 1..Len(u) : u[j] = stack[j + 1]
      BY <1>7
    <2>4. stack' = frames \o u
      BY DEF Calls
    <2> HIDE DEF u, frames
    <2>5. /\ Len(stack') = Len(frames) + Len(u) /\ Len(frames) \in Nat /\ Len(u) \in Nat
          /\ \A j \in 1..Len(frames) : stack'[j] = frames[j]
          /\ \A j \in 1..Len(u) : stack'[Len(frames) + j] = u[j]
      BY <1>8, <2>2, <2>4, CatIndex
    <2>6. ASSUME NEW k \in 1..Len(stack') PROVE stack'[k].op # "fire_pull"
      <3>1. CASE k \in 1..Len(frames)
        BY <2>1, <2>5, <3>1
      <3>2. CASE k \notin 1..Len(frames)
        <4> DEFINE j == k - Len(frames)
        <4>1. j \in 1..Len(u) /\ Len(frames) + j = k /\ j + 1 \in 1..Len(stack) /\ j + 1 # 1
          BY <1>1, <2>5, <3>2
        <4>2. stack'[Len(frames) + j] = u[j] /\ u[j] = stack[j + 1]
          BY <2>3, <2>5, <4>1
        <4>3. stack'[k] = stack[j + 1]
          BY <4>1, <4>2
        <4> QED BY <4>1, <4>3 DEF FirePullNext
      <3> QED BY <3>1, <3>2
    <2> QED BY <2>6 DEF FirePullNext
  <1> QED BY <1>13, <1>14, <1>16

(* Core::down outside a collecting batch.                                  *)
LEMMA DownNowStack ==
  ASSUME StackInv, SubsInv, Nested(stack), FirePullNext, DownNow
  PROVE  /\ Nested(stack') /\ Balance(stack') = Balance(Tail(stack)) /\ FirePullNext'
         /\ \A op : Top.op # op => Held(stack, op) \subseteq Held(stack', op)
  <1>1. Top.n \in Node /\ stack # <<>> /\ Top.op \notin Marks
    <2>1. At("down")
      BY DEF DownNow
    <2> QED BY <2>1, TopNode DEF At, Top, Marks
  <1>2. IsSeq(stack)
    BY StackIsSeq
  <1>3. \/ Calls(<<>>) \/ Calls(<<Frame("panic", Top.n)>>)
        \/ \E c, d, ms : Calls(When(c, Deliver(Top.n, Msg("DIRTY")))
                  \o (<<Frame("enter", Top.n), Call("msg", Top.n, ms), Frame("finish", Top.n)>>
                      \o When(d, <<Frame("reset", Top.n)>>)))
    BY DEF DownNow
  <1>4. CASE Calls(<<>>) \/ Calls(<<Frame("panic", Top.n)>>)
    <2>1. Plain(<<>>) /\ Plain(<<Frame("panic", Top.n)>>)
      BY PlainEmpty, PlainFrames DEF Marks
    <2>2. Ordinary
      BY <1>1, <1>4, <2>1, OrdinaryBy
    <2> QED BY <1>2, <2>2, OrdinaryStack
  <1>5. CASE \E c, d, ms : Calls(When(c, Deliver(Top.n, Msg("DIRTY")))
                  \o (<<Frame("enter", Top.n), Call("msg", Top.n, ms), Frame("finish", Top.n)>>
                      \o When(d, <<Frame("reset", Top.n)>>)))
    <2>1. PICK c, d, ms : Calls(When(c, Deliver(Top.n, Msg("DIRTY")))
                  \o (<<Frame("enter", Top.n), Call("msg", Top.n, ms), Frame("finish", Top.n)>>
                      \o When(d, <<Frame("reset", Top.n)>>)))
      BY <1>5
    <2> DEFINE D == When(c, Deliver(Top.n, Msg("DIRTY")))
               R == When(d, <<Frame("reset", Top.n)>>)
               e == Frame("enter", Top.n)
               m == Call("msg", Top.n, ms)
               f == Frame("finish", Top.n)
    <2>2. Plain(Deliver(Top.n, Msg("DIRTY"))) /\ Plain(<<Frame("reset", Top.n)>>)
      BY <1>1, PlainDeliver, PlainFrames DEF Marks
    <2>3. Plain(D) /\ Plain(R)
      BY <2>2, PlainWhen
    <2>4. e.op = "enter" /\ m.op = "msg" /\ f.op = "finish"
      BY DEF Frame, Call
    <2>5. Calls(D \o (<<e, m, f>> \o R))
      BY <2>1
    <2> HIDE DEF D, R, e, m, f
    <2> QED BY <1>1, <1>2, <2>3, <2>4, <2>5, SendStack
  <1> QED BY <1>3, <1>4, <1>5

(* A pull demand that fires is served next, under its guard.               *)
LEMMA FireDemandStack ==
  ASSUME StackInv, Nested(stack), FirePullNext, FireDemand
  PROVE  /\ Nested(stack') /\ Balance(stack') = Balance(Tail(stack)) /\ FirePullNext'
         /\ \A op : Top.op # op => Held(stack, op) \subseteq Held(stack', op)
         /\ aux' # aux => Top.n \in Held(stack', "pull_end")
  <1>1. stack # <<>> /\ Top.op = "fire_demand"
    BY DEF FireDemand, At, Top
  <1>2. IsSeq(stack)
    BY StackIsSeq
  <1> DEFINE a == Frame("fire_pull", Top.n)
             b == Frame("pull_end", Top.n)
             u == Tail(stack)
  <1>3. (Calls(<<>>) /\ UNCHANGED aux) \/ Calls(<<a, b>>)
    BY DEF FireDemand, When
  <1>4. CASE Calls(<<>>) /\ UNCHANGED aux
    <2>1. Ordinary
      BY <1>1, <1>4, PlainEmpty, OrdinaryBy
    <2> QED BY <1>2, <1>4, <2>1, OrdinaryStack
  <1>5. CASE Calls(<<a, b>>)
    <2>1. a.op = "fire_pull" /\ b.op = "pull_end" /\ a.n = Top.n /\ b.n = Top.n
      BY DEF Frame
    <2> HIDE DEF a, b
    <2>2. IsSeq(u) /\ Nested(u) /\ Len(stack) = Len(u) + 1
      BY <1>1, <1>2, BalanceTail, TopAndTail
    <2>3. PICK C : stack \in Seq(C)
      BY <1>2 DEF IsSeq
    <2>4. \A j \in 1..Len(u) : u[j] = stack[j + 1]
      BY <1>1, <2>3
    <2> DEFINE V == C \cup {a, b}
               fs == <<a, b>>
    <2>5. u \in Seq(V) /\ fs \in Seq(V)
      BY <1>1, <2>3
    <2>51. Len(fs) = 2 /\ fs[1] = a /\ fs[2] = b
      OBVIOUS
    <2>6. stack' = fs \o u
      BY <1>5 DEF Calls
    <2>7. \A k \in 1..Len(fs) : fs[k].op \notin {"enter", "finish"}
      BY <2>1
    <2>8. IsSeq(fs)
      BY <2>5 DEF IsSeq
    <2>9. Calls(fs)
      BY <1>5
    <2> HIDE DEF u, V, fs
    <2>10. \A op \in {"enter", "finish"} : Places(stack', op) = Places(u, op)
      <3> TAKE op \in {"enter", "finish"}
      <3>1. \A k \in 1..Len(fs) : fs[k].op # op
        BY <2>7
      <3> QED BY <2>2, <2>6, <2>8, <3>1, PlacesCat
    <2>11. Nested(stack') /\ Balance(stack') = Balance(u)
      BY <2>2, <2>10 DEF Nested, Balance
    <2>12. \A op : (Top.op # op => Held(stack, op) \subseteq Held(stack', op))
                   /\ Held(fs, op) \subseteq Held(stack', op)
      BY <1>1, <1>2, <2>8, <2>9, HeldKept
    <2>13. Top.n \in Held(fs, "pull_end")
      BY <2>1, <2>51 DEF Held
    <2>14. /\ Len(stack') = Len(fs) + Len(u) /\ Len(fs) \in Nat /\ Len(u) \in Nat
           /\ \A j \in 1..Len(fs) : stack'[j] = fs[j]
           /\ \A j \in 1..Len(u) : stack'[Len(fs) + j] = u[j]
      BY <2>5, <2>6, CatIndex
    <2>15. ASSUME NEW k \in 1..Len(stack'), stack'[k].op = "fire_pull" PROVE k = 1
      <3>1. CASE k \in 1..Len(fs)
        BY <2>1, <2>51, <2>14, <2>15, <3>1
      <3>2. CASE k \notin 1..Len(fs)
        <4> DEFINE j == k - Len(fs)
        <4>1. j \in 1..Len(u) /\ Len(fs) + j = k /\ j + 1 \in 1..Len(stack) /\ j + 1 # 1
          BY <2>2, <2>14, <3>2
        <4>2. stack'[Len(fs) + j] = u[j] /\ u[j] = stack[j + 1]
          BY <2>4, <2>14, <4>1
        <4>3. stack'[k] = stack[j + 1]
          BY <4>1, <4>2
        <4> QED BY <2>15, <4>1, <4>3 DEF FirePullNext
      <3> QED BY <3>1, <3>2
    <2>16. Len(stack') > 1 /\ stack'[2] = b /\ stack'[1] = a
      BY <2>51, <2>14
    <2>17. FirePullNext'
      BY <2>1, <2>15, <2>16 DEF FirePullNext
    <2> QED BY <2>11, <2>12, <2>13, <2>17 DEF u
  <1> QED BY <1>3, <1>4, <1>5

-----------------------------------------------------------------------------
(* Every step keeps the guards.                                            *)

(* What a step that does not unwind does to the stack.                     *)
LEMMA StepStack ==
  ASSUME Inv, Nested(stack), FirePullNext, Step, ~Panic
  PROVE  /\ IsSeq(stack) /\ stack # <<>>
         /\ Nested(stack') /\ Balance(stack') = Balance(Tail(stack)) /\ FirePullNext'
         /\ \A op : Top.op # op => Held(stack, op) \subseteq Held(stack', op)
  <1>1. IsSeq(stack) /\ stack # <<>>
    BY StackIsSeq, TopDecides DEF Inv
  <1>2. CASE Ordinary
    BY <1>1, <1>2, OrdinaryStack
  <1>3. CASE DownNow
    BY <1>1, <1>3, DownNowStack DEF Inv
  <1>4. CASE FireDemand
    BY <1>1, <1>4, FireDemandStack DEF Inv
  <1> QED BY <1>2, <1>3, <1>4, StepOrdinary

(* The handlers of the guards' calls exclude each other.                   *)
LEMMA OneHandler ==
  /\ Enter => Top.op = "enter" /\ depth' = depth + 1 /\ deferred' = deferred
  /\ Finish => Top.op = "finish" /\ depth' = depth - 1 /\ deferred' = deferred
  /\ Drain => Top.op = "drain" /\ deferred' = NoDeferred
  /\ Panic => Top.op = "panic"
  /\ Run => Top.op = "run"
  /\ RunEnd => Top.op = "run_end"
  /\ FireDemand => Top.op = "fire_demand"
  /\ FirePull => Top.op = "fire_pull"
  /\ PullEnd => Top.op = "pull_end"
  /\ OwnedDown => Top.op = "owned_down"
  /\ OwnerEnd => Top.op = "owner_end" /\ scope' = NoScope
  BY DEF Enter, Finish, Drain, Panic, Run, RunEnd, FireDemand, FirePull, PullEnd, OwnedDown,
         OwnerEnd, At, Top

(* The depth is the number of open scopes.                                 *)
LEMMA StepDepth ==
  ASSUME Inv, DepthInv, FirePullNext, Step, ~Panic
  PROVE  DepthInv'
  <1>1. /\ IsSeq(stack) /\ stack # <<>> /\ Nested(stack')
        /\ Balance(stack') = Balance(Tail(stack))
    BY StepStack DEF DepthInv
  <1>2. /\ Balance(stack) \in Int
        /\ Top.op \notin {"enter", "finish"} => Balance(Tail(stack)) = Balance(stack)
        /\ Top.op = "enter" => Balance(Tail(stack)) = Balance(stack) + 1
        /\ Top.op = "finish" => Balance(Tail(stack)) = Balance(stack) - 1
    BY <1>1, BalanceTail DEF DepthInv, Top
  <1>3. CASE Enter
    BY <1>1, <1>2, <1>3, OneHandler DEF DepthInv
  <1>4. CASE Finish
    BY <1>1, <1>2, <1>4, OneHandler DEF DepthInv
  <1>5. CASE ~Enter /\ ~Finish
    <2>1. Top.op \notin {"enter", "finish"}
      BY <1>5, TopDecides DEF Marks
    <2>2. depth' = depth
      BY <1>5, StepDelivery
    <2> QED BY <1>1, <1>2, <2>1, <2>2 DEF DepthInv
  <1> QED BY <1>3, <1>4, <1>5

(* Deferred actions wait for a scope that is open or for the drain after   *)
(* it.                                                                     *)
LEMMA StepDeferred ==
  ASSUME Inv, DepthInv, FirePullNext, DeferredHeld, Step, ~Panic
  PROVE  DeferredHeld'
  <1> SUFFICES ASSUME deferred' # NoDeferred PROVE depth' > 0 \/ Held(stack', "drain") # {}
    BY DEF DeferredHeld
  <1>1. /\ IsSeq(stack) /\ stack # <<>>
        /\ \A op : Top.op # op => Held(stack, op) \subseteq Held(stack', op)
    BY StepStack DEF DepthInv
  <1>2. depth \in Nat
    BY <1>1, BalanceNat DEF DepthInv
  <1>3. CASE Enter
    BY <1>2, <1>3, OneHandler
  <1>4. CASE Finish
    <2>1. depth' = depth - 1 /\ Calls(When(depth = 1, <<Frame("drain", Top.n)>>)) /\ Top.op = "finish"
      BY <1>4 DEF Finish, At, Top
    <2>2. depth > 0
      BY <1>1, <2>1, BalanceTail DEF DepthInv, Top
    <2>3. CASE depth = 1
      <3> DEFINE f == Frame("drain", Top.n)
                 fs == <<f>>
      <3>1. Calls(fs)
        BY <2>1, <2>3 DEF When
      <3>2. fs \in Seq({f}) /\ Len(fs) = 1 /\ fs[1] = f /\ f.op = "drain"
        BY DEF Frame
      <3> HIDE DEF f, fs
      <3>3. IsSeq(fs)
        BY <3>2 DEF IsSeq
      <3>4. Held(fs, "drain") \subseteq Held(stack', "drain")
        BY <1>1, <3>1, <3>3, HeldKept
      <3>5. f.n \in Held(fs, "drain")
        BY <3>2 DEF Held
      <3> QED BY <3>4, <3>5
    <2>4. CASE depth # 1
      BY <1>2, <2>1, <2>2, <2>4
    <2> QED BY <2>3, <2>4
  <1>5. CASE ~Enter /\ ~Finish
    <2>1. depth' = depth /\ (deferred' = deferred \/ depth > 0)
      BY <1>5, StepDelivery
    <2>2. Top.op # "drain"
      BY OneHandler, TopDecides DEF Ends
    <2> QED BY <1>1, <2>1, <2>2 DEF DeferredHeld
  <1> QED BY <1>3, <1>4, <1>5

(* A wave that is in flight has its owner below it.                        *)
LEMMA StepOwner ==
  ASSUME Inv, DepthInv, FirePullNext, ScopeShape, ScopeHeld, Step, ~Panic
  PROVE  ScopeShape' /\ ScopeHeld'
  <1>1. /\ IsSeq(stack) /\ stack # <<>>
        /\ \A op : Top.op # op => Held(stack, op) \subseteq Held(stack', op)
    BY StepStack DEF DepthInv
  <1>2. CASE OwnerEnd
    <2>1. scope' = NoScope
      BY <1>2, OneHandler
    <2> QED BY <2>1 DEF NoScope, ScopeShape, ScopeHeld
  <1>3. CASE OwnedDown
    <2>1. Top.op = "owned_down"
      BY <1>3, OneHandler
    <2>2. Held(stack, "owner_end") \subseteq Held(stack', "owner_end")
      BY <1>1, <2>1
    <2>3. CASE scope.on
      <3>1. scope' = scope
        BY <1>3, <2>3 DEF OwnedDown
      <3> QED BY <2>2, <2>3, <3>1 DEF ScopeShape, ScopeHeld
    <2>4. CASE ~scope.on
      <3>1. scope' = NewScope
        BY <1>3, <2>4 DEF OwnedDown
      <3>2. ScopeShape' /\ scope'.on
        BY <3>1 DEF NewScope, NoScope, ScopeShape
      <3> DEFINE a == Call("down", Top.n, Top.ms)
                 b == Frame("owner_end", Top.n)
                 fs == <<a>> \o <<b>>
      <3>3. Calls(fs)
        BY <1>3, <2>4 DEF OwnedDown, When
      <3>4. b.op = "owner_end"
        BY DEF Frame
      <3> HIDE DEF a, b
      <3>5. fs \in Seq({a, b}) /\ Len(fs) = 2 /\ fs[2] = b
        OBVIOUS
      <3> HIDE DEF fs
      <3>6. IsSeq(fs)
        BY <3>5 DEF IsSeq
      <3>7. Held(fs, "owner_end") \subseteq Held(stack', "owner_end")
        BY <1>1, <3>3, <3>6, HeldKept
      <3>8. b.n \in Held(fs, "owner_end")
        BY <3>4, <3>5 DEF Held
      <3> QED BY <3>2, <3>7, <3>8 DEF ScopeHeld
    <2> QED BY <2>3, <2>4 DEF ScopeShape
  <1>4. CASE ~OwnerEnd /\ ~OwnedDown
    <2>1. ScopeKept
      BY <1>4, StepScope
    <2>2. Top.op # "owner_end"
      BY <1>4, TopDecides DEF Ends
    <2>3. Held(stack, "owner_end") \subseteq Held(stack', "owner_end")
      BY <1>1, <2>2
    <2> QED BY <2>1, <2>3 DEF ScopeShape, ScopeHeld, ScopeKept
  <1> QED BY <1>2, <1>3, <1>4

(* A call on another node is not the one on top.                           *)
LEMMA HeldBelow ==
  ASSUME IsSeq(stack), stack # <<>>, NEW frames, IsSeq(frames) \/ Plain(frames), Calls(frames),
         NEW op, NEW n \in Held(stack, op), n # Top.n
  PROVE  n \in Held(stack', op)
  <1> DEFINE u == Tail(stack)
             r == frames \o u
  <1>1. IsSeq(u) /\ Len(stack) = Len(u) + 1
    BY TopAndTail
  <1>2. \A k \in 1..Len(u) : stack[k + 1] = u[k]
    BY DEF IsSeq
  <1>3. PICK V : frames \in Seq(V) /\ u \in Seq(V)
    <2>1. PICK A : frames \in Seq(A)
      BY DEF IsSeq, Plain
    <2>2. PICK B : u \in Seq(B)
      BY <1>1 DEF IsSeq
    <2>3. frames \in Seq(A \cup B) /\ u \in Seq(A \cup B)
      BY <2>1, <2>2
    <2> QED BY <2>3
  <1> HIDE DEF u
  <1>4. /\ Len(r) = Len(frames) + Len(u) /\ Len(frames) \in Nat /\ Len(u) \in Nat
        /\ \A k \in 1..Len(u) : r[Len(frames) + k] = u[k]
    BY <1>3, CatIndex
  <1> HIDE DEF r
  <1>5. stack' = r
    BY DEF Calls, r, u
  <1>6. PICK k \in 1..Len(stack) : stack[k].op = op /\ stack[k].n = n
    BY DEF Held
  <1>7. k # 1
    BY <1>6 DEF Top
  <1>8. k - 1 \in 1..Len(u) /\ (k - 1) + 1 = k
    BY <1>1, <1>4, <1>6, <1>7
  <1>9. u[k - 1] = stack[k]
    BY <1>2, <1>8
  <1>10. r[Len(frames) + (k - 1)] = stack[k] /\ Len(frames) + (k - 1) \in 1..Len(r)
    BY <1>4, <1>8, <1>9
  <1>11. n \in Held(r, op)
    BY <1>6, <1>10 DEF Held
  <1> QED BY <1>5, <1>11

(* A node inside its fn has the end of its run below it.                   *)
LEMMA StepInsideHeld ==
  ASSUME Inv, DepthInv, FirePullNext, InsideShape, InsideHeld, Step, ~Panic
  PROVE  InsideShape' /\ InsideHeld'
  <1>1. /\ IsSeq(stack) /\ stack # <<>>
        /\ \A op : Top.op # op => Held(stack, op) \subseteq Held(stack', op)
    BY StepStack DEF DepthInv
  <1>2. CASE RunEnd
    <2>1. Top.op = "run_end" /\ wave' = [wave EXCEPT ![Top.n].inside = FALSE]
      BY <1>2, OneHandler DEF RunEnd
    <2>2. PICK frames : Plain(frames) /\ Calls(frames)
      BY <1>2, RunOrdinary DEF Inv, Ordinary
    <2>3. InsideShape'
      BY <2>1 DEF InsideShape
    <2>4. ASSUME NEW n \in Node, wave'[n].inside PROVE n \in Held(stack', "run_end")
      <3>1. n # Top.n /\ wave[n].inside
        BY <2>1, <2>4 DEF InsideShape
      <3>2. n \in Held(stack, "run_end")
        BY <3>1 DEF InsideHeld
      <3> QED BY <1>1, <2>2, <3>1, <3>2, HeldBelow
    <2> QED BY <2>3, <2>4 DEF InsideHeld
  <1>3. CASE Run
    <2>1. Top.op = "run"
      BY <1>3, OneHandler
    <2>2. Held(stack, "run_end") \subseteq Held(stack', "run_end")
      BY <1>1, <2>1
    <2>3. CASE wave[Top.n].inside
      <3>1. InsideKept
        BY <1>3, <2>3, InsideSame DEF Run
      <3> QED BY <2>2, <3>1 DEF InsideKept, InsideHeld
    <2>4. CASE ~wave[Top.n].inside
      <3>1. PICK act \in FnActs[Top.n] :
               /\ wave' = [wave EXCEPT ![Top.n].inside = TRUE, ![Top.n].tier3 = FALSE]
               /\ Calls(FnCalls(Top.n, act) \o <<Frame("run_end", Top.n)>>)
        BY <1>3, <2>4 DEF Run
      <3>2. /\ InsideShape'
            /\ \A n \in Node : n # Top.n => wave'[n].inside = wave[n].inside
        BY <3>1 DEF InsideShape
      <3>3. Top.n \in Node
        BY <1>3, TopNode DEF Run, Inv
      <3>4. Plain(FnCalls(Top.n, act))
        BY <3>3, PlainFn
      <3> DEFINE b == Frame("run_end", Top.n)
                 g == FnCalls(Top.n, act)
                 fs == g \o <<b>>
      <3>5. b.op = "run_end" /\ b.n = Top.n
        BY DEF Frame
      <3> HIDE DEF b, g
      <3>6. PICK G : g \in Seq(G)
        BY <3>4 DEF Plain, g
      <3> DEFINE W == G \cup {b}
                 t == <<b>>
      <3>7. g \in Seq(W) /\ t \in Seq(W)
        BY <3>6
      <3>71. Len(t) = 1 /\ t[1] = b
        OBVIOUS
      <3> HIDE DEF t, W
      <3>8. /\ g \o t \in Seq(W) /\ Len(g \o t) = Len(g) + Len(t) /\ Len(g) \in Nat
            /\ \A k \in 1..Len(t) : (g \o t)[Len(g) + k] = t[k]
        BY <3>7, CatIndex
      <3>9. fs = g \o t /\ Calls(fs)
        BY <3>1 DEF t, g, b
      <3> HIDE DEF fs
      <3>10. /\ fs \in Seq(W) /\ Len(fs) = Len(g) + Len(t) /\ Len(g) \in Nat
             /\ \A k \in 1..Len(t) : fs[Len(g) + k] = t[k]
        BY <3>8, <3>9
      <3>11. fs[Len(g) + 1] = b /\ Len(g) + 1 \in 1..Len(fs)
        BY <3>71, <3>10
      <3>12. Top.n \in Held(fs, "run_end")
        BY <3>5, <3>11 DEF Held
      <3>13. IsSeq(fs)
        BY <3>10 DEF IsSeq
      <3>14. Held(fs, "run_end") \subseteq Held(stack', "run_end")
        BY <1>1, <3>9, <3>13, HeldKept
      <3>15. \A n \in Node : n = Top.n \/ (wave'[n].inside => n \in Held(stack', "run_end"))
        BY <2>2, <3>2 DEF InsideHeld
      <3> QED BY <3>2, <3>12, <3>14, <3>15 DEF InsideHeld
    <2> QED BY <2>3, <2>4
  <1>4. CASE ~Run /\ ~RunEnd
    <2>1. InsideKept
      BY <1>4, StepInside
    <2>2. Top.op # "run_end"
      BY <1>4, TopDecides DEF Ends
    <2>3. Held(stack, "run_end") \subseteq Held(stack', "run_end")
      BY <1>1, <2>2
    <2> QED BY <2>1, <2>3 DEF InsideHeld, InsideKept
  <1> QED BY <1>2, <1>3, <1>4

(* A node that serves a pull has the end of it below it.                   *)
LEMMA StepPullHeld ==
  ASSUME Inv, DepthInv, FirePullNext, PullShape, PullHeld, Step, ~Panic
  PROVE  PullShape' /\ PullHeld'
  <1>1. /\ IsSeq(stack) /\ stack # <<>>
        /\ \A op : Top.op # op => Held(stack, op) \subseteq Held(stack', op)
    BY StepStack DEF DepthInv
  <1>2. CASE PullEnd
    <2>1. aux' = [aux EXCEPT ![Top.n].pulling = FALSE, ![Top.n].pullDirty = FALSE]
      BY <1>2 DEF PullEnd
    <2>2. PICK frames : Plain(frames) /\ Calls(frames)
      BY <1>2, UpOrdinary DEF Inv, Ordinary
    <2>3. /\ PullShape' /\ \A n \in Node : n # Top.n => aux'[n] = aux[n]
          /\ Top.n \in Node => ~aux'[Top.n].pulling /\ ~aux'[Top.n].pullDirty
      BY <2>1 DEF PullShape
    <2>4. ASSUME NEW n \in Node, aux'[n].pulling \/ aux'[n].pullDirty
          PROVE  n \in Held(stack', "pull_end")
      <3>1. n # Top.n /\ aux'[n] = aux[n]
        BY <2>3, <2>4
      <3>2. n \in Held(stack, "pull_end")
        BY <2>4, <3>1 DEF PullHeld
      <3> QED BY <1>1, <2>2, <3>1, <3>2, HeldBelow
    <2> QED BY <2>3, <2>4 DEF PullHeld
  <1>3. CASE FireDemand
    <2>1. \/ UNCHANGED aux
          \/ aux' = [aux EXCEPT ![Top.n].demand = FALSE, ![Top.n].pulling = TRUE]
      BY <1>3 DEF FireDemand
    <2>2. PullShape' /\ \A n \in Node : n # Top.n => aux'[n] = aux[n]
      BY <2>1 DEF PullShape
    <2>3. Top.op # "pull_end"
      BY <1>3, OneHandler
    <2>4. Held(stack, "pull_end") \subseteq Held(stack', "pull_end")
      BY <1>1, <2>3
    <2>5. aux' # aux => Top.n \in Held(stack', "pull_end")
      BY <1>3, FireDemandStack DEF Inv, DepthInv
    <2>6. ASSUME NEW n \in Node, aux'[n].pulling \/ aux'[n].pullDirty
          PROVE  n \in Held(stack', "pull_end")
      <3>1. CASE aux' = aux
        BY <2>4, <2>6, <3>1 DEF PullHeld
      <3>2. CASE n = Top.n /\ aux' # aux
        BY <2>5, <3>2
      <3>3. CASE n # Top.n
        BY <2>2, <2>4, <2>6, <3>3 DEF PullHeld
      <3> QED BY <3>1, <3>2, <3>3
    <2> QED BY <2>2, <2>6 DEF PullHeld
  <1>4. CASE FirePull
    <2>1. Top.op = "fire_pull"
      BY <1>4, OneHandler
    <2>2. Held(stack, "pull_end") \subseteq Held(stack', "pull_end")
      BY <1>1, <2>1
    <2>3. PICK b, c, d : aux' = [aux EXCEPT ![Top.n].buffer = b, ![Top.n].skipped = c,
                                         ![Top.n].pullDirty = @ \/ d]
      BY <1>4 DEF FirePull
    <2>4. PullShape' /\ \A n \in Node : n # Top.n => aux'[n] = aux[n]
      <3>1. DOMAIN aux' = Node /\ \A n \in Node : n # Top.n => aux'[n] = aux[n]
        BY <2>3 DEF PullShape
      <3>2. ASSUME Top.n \in Node
            PROVE  /\ DOMAIN aux'[Top.n] = DOMAIN aux[Top.n]
                   /\ aux'[Top.n].pulling = aux[Top.n].pulling
                   /\ aux'[Top.n].pullDirty \in BOOLEAN
        BY <2>3, <3>2 DEF PullShape
      <3> QED BY <3>1, <3>2 DEF PullShape
    <2>5. Len(stack) > 1 /\ stack[2].op = "pull_end" /\ stack[2].n = Top.n
      <3>1. 1 \in 1..Len(stack) /\ stack[1].op = "fire_pull"
        BY <1>1, <2>1 DEF Top, IsSeq
      <3> QED BY <3>1 DEF FirePullNext, Top
    <2>6. Top.n \in Held(stack, "pull_end")
      <3>1. 2 \in 1..Len(stack)
        BY <1>1, <2>5 DEF IsSeq
      <3> QED BY <2>5, <3>1 DEF Held
    <2>7. ASSUME NEW n \in Node, aux'[n].pulling \/ aux'[n].pullDirty
          PROVE  n \in Held(stack', "pull_end")
      BY <2>2, <2>4, <2>6, <2>7 DEF PullHeld
    <2> QED BY <2>4, <2>7 DEF PullHeld
  <1>5. CASE ~PullEnd /\ ~FireDemand /\ ~FirePull
    <2>1. PullKept
      BY <1>5, StepPull
    <2>2. Top.op # "pull_end"
      BY <1>5, TopDecides DEF Ends, Marks
    <2>3. Held(stack, "pull_end") \subseteq Held(stack', "pull_end")
      BY <1>1, <2>2
    <2> QED BY <2>1, <2>3 DEF PullHeld, PullKept
  <1> QED BY <1>2, <1>3, <1>4, <1>5

(* A call that was not unwound is still there.                             *)
LEMMA HeldUnwound ==
  ASSUME IsSeq(stack), NEW c \in 1..Len(stack), NEW R, IsSeq(R),
         stack' = R \o SubSeq(stack, c + 1, Len(stack)),
         NEW op, NEW n \in Held(stack, op),
         n \notin {stack[k].n : k \in {j \in 1..c : stack[j].op = op}}
  PROVE  n \in Held(stack', op)
  <1> DEFINE t == SubSeq(stack, c + 1, Len(stack))
             r == R \o t
  <1>1. PICK S : stack \in Seq(S)
    BY DEF IsSeq
  <1>2. PICK T : R \in Seq(T)
    BY DEF IsSeq
  <1>3. /\ t \in Seq(S) /\ Len(t) = Len(stack) - c /\ Len(stack) \in Nat /\ c \in Nat
        /\ \A k \in 1..(Len(stack) - c) : t[k] = stack[c + k]
    BY <1>1
  <1> HIDE DEF t
  <1>4. t \in Seq(S \cup T) /\ R \in Seq(S \cup T)
    BY <1>2, <1>3
  <1>5. /\ Len(r) = Len(R) + Len(t) /\ Len(R) \in Nat
        /\ \A k \in 1..Len(t) : r[Len(R) + k] = t[k]
    BY <1>4, CatIndex
  <1>6. stack' = r
    BY DEF t
  <1> HIDE DEF r
  <1>7. PICK k \in 1..Len(stack) : stack[k].op = op /\ stack[k].n = n
    BY DEF Held
  <1>8. k \notin 1..c
    BY <1>7
  <1>9. k - c \in 1..Len(t) /\ c + (k - c) = k
    BY <1>3, <1>7, <1>8
  <1>91. r[Len(R) + (k - c)] = t[k - c] /\ Len(R) + (k - c) \in 1..Len(r)
    BY <1>3, <1>5, <1>9
  <1>92. t[k - c] = stack[c + (k - c)]
    BY <1>3, <1>9
  <1>10. r[Len(R) + (k - c)] = stack[k] /\ Len(R) + (k - c) \in 1..Len(r)
    BY <1>9, <1>91, <1>92
  <1>11. n \in Held(r, op)
    BY <1>7, <1>10 DEF Held
  <1> QED BY <1>6, <1>11

(* A panic that unwinds to a catch leaves what the guards below it hold.   *)
LEMMA PanicGuarded ==
  ASSUME Inv, Guarded, Panic
  PROVE  Guarded'
  <1>1. IsSeq(stack) /\ Nested(stack) /\ depth = Balance(stack)
    BY StackIsSeq DEF Inv, Guarded, DepthInv
  <1>2. Top.op = "panic"
    BY OneHandler
  <1>3. PICK catch \in 1..Len(stack) :
          /\ Catches(catch)
          /\ wave' = [n \in Node |->
               [wave[n] EXCEPT
                  !.inside = @ /\ n \notin (IF stack[catch].op = "owner_end" THEN scope.touched ELSE {})
                                 \cup {stack[k].n : k \in {j \in 1..catch : stack[j].op = "run_end"}},
                  !.dirtyOut = @ /\ n \notin (IF stack[catch].op = "owner_end" THEN scope.touched ELSE {}),
                  !.tier3 = @ /\ n \notin (IF stack[catch].op = "owner_end" THEN scope.touched ELSE {})]]
          /\ aux' = [n \in Node |->
                IF n \in {stack[k].n : k \in {j \in 1..catch : stack[j].op = "pull_end"}}
                  THEN [aux[n] EXCEPT !.pulling = FALSE, !.pullDirty = FALSE]
                  ELSE aux[n]]
          /\ depth' = UnwoundDepth(catch)
          /\ deferred' = NoDeferred
          /\ scope' = IF stack[catch].op = "owner_end" THEN NoScope ELSE scope
          /\ stack' = When(stack[catch].op = "owner_end",
                           Recovery(IF scope.blamed # NoNode THEN scope.blamed
                                                             ELSE stack[catch].n))
                      \o SubSeq(stack, catch + 1, Len(stack))
    BY DEF Panic
  <1> DEFINE Nodes(op) == {stack[k].n : k \in {j \in 1..catch : stack[j].op = op}}
             blamed == IF scope.blamed # NoNode THEN scope.blamed ELSE stack[catch].n
             R == When(stack[catch].op = "owner_end", Recovery(blamed))
             t == SubSeq(stack, catch + 1, Len(stack))
  <1>4. Plain(R)
    <2> HIDE DEF blamed
    <2>1. /\ Call("down", blamed, <<Msg("ERROR")>>).op \notin Marks
          /\ Frame("recovered", blamed).op \notin Marks
      BY PlainFrames DEF Marks
    <2>2. Plain(Recovery(blamed))
      BY <2>1, PlainTwo DEF Recovery
    <2> QED BY <2>2, PlainWhen
  <1>5. stack' = R \o t
    BY <1>3
  <1>6. IsSeq(R)
    BY <1>4 DEF Plain, IsSeq
  <1>7. /\ IsSeq(t) /\ Nested(t) /\ Balance(t) \in Int
        /\ Balance(t) = Balance(stack) - (Cardinality({k \in 1..catch : stack[k].op = "finish"})
                                          - Cardinality({k \in 1..catch : stack[k].op = "enter"}))
    BY <1>1, BalanceSub
  <1>8. ASSUME NEW op, NEW n \in Held(stack, op), n \notin Nodes(op)
        PROVE  n \in Held(stack', op)
    <2> HIDE DEF R
    <2> QED BY <1>1, <1>5, <1>6, <1>8, HeldUnwound
  <1>9. DepthInv'
    <2> HIDE DEF R, t
    <2>1. Nested(R \o t) /\ Balance(R \o t) = Balance(t)
      BY <1>4, <1>7, BalancePlain
    <2>2. depth' = Balance(t)
      BY <1>1, <1>3, <1>7 DEF UnwoundDepth
    <2> QED BY <1>5, <2>1, <2>2 DEF DepthInv
  <1>10. DeferredHeld'
    BY <1>3 DEF DeferredHeld
  <1>11. ScopeShape' /\ ScopeHeld'
    <2>1. CASE stack[catch].op = "owner_end"
      <3>1. scope' = NoScope
        BY <1>3, <2>1
      <3> QED BY <3>1 DEF NoScope, ScopeShape, ScopeHeld
    <2>2. CASE stack[catch].op # "owner_end"
      <3>1. scope' = scope
        BY <1>3, <2>2
      <3>2. Nodes("owner_end") = {}
        <4>1. \A k \in 1..catch : k = catch \/ k \in 1..(catch - 1)
          BY <1>1 DEF IsSeq
        <4>2. \A k \in 1..catch : stack[k].op # "owner_end"
          BY <1>3, <2>2, <4>1 DEF Catches
        <4> QED BY <4>2
      <3>3. Held(stack, "owner_end") # {} => Held(stack', "owner_end") # {}
        BY <1>8, <3>2
      <3> QED BY <3>1, <3>3 DEF Guarded, GuardShape, ScopeShape, ScopeHeld
    <2> QED BY <2>1, <2>2
  <1>12. InsideShape' /\ InsideHeld'
    <2>1. /\ InsideShape'
          /\ \A n \in Node : wave'[n].inside => wave[n].inside /\ n \notin Nodes("run_end")
      BY <1>3 DEF Guarded, GuardShape, InsideShape
    <2>2. ASSUME NEW n \in Node, wave'[n].inside PROVE n \in Held(stack', "run_end")
      <3>1. n \in Held(stack, "run_end") /\ n \notin Nodes("run_end")
        BY <2>1, <2>2 DEF Guarded, InsideHeld
      <3> QED BY <1>8, <3>1
    <2> QED BY <2>1, <2>2 DEF InsideHeld
  <1>13. PullShape' /\ PullHeld'
    <2>1. /\ PullShape'
          /\ \A n \in Node : aux'[n].pulling \/ aux'[n].pullDirty
                             => (aux[n].pulling \/ aux[n].pullDirty) /\ n \notin Nodes("pull_end")
      BY <1>3 DEF Guarded, GuardShape, PullShape
    <2>2. ASSUME NEW n \in Node, aux'[n].pulling \/ aux'[n].pullDirty
          PROVE  n \in Held(stack', "pull_end")
      <3>1. n \in Held(stack, "pull_end") /\ n \notin Nodes("pull_end")
        BY <2>1, <2>2 DEF Guarded, PullHeld
      <3> QED BY <1>8, <3>1
    <2> QED BY <2>1, <2>2 DEF PullHeld
  <1>14. FirePullNext'
    <2>1. PICK F : R \in Seq(F) /\ \A f \in F : f.op \notin Marks
      BY <1>4 DEF Plain
    <2>2. PICK S : stack \in Seq(S)
      BY <1>1 DEF IsSeq
    <2>3. /\ t \in Seq(S) /\ Len(t) = Len(stack) - catch /\ Len(stack) \in Nat
          /\ \A k \in 1..(Len(stack) - catch) : t[k] = stack[catch + k]
      BY <2>2
    <2> HIDE DEF R, t
    <2>4. R \in Seq(F \cup S) /\ t \in Seq(F \cup S)
      BY <2>1, <2>3
    <2>5. /\ Len(stack') = Len(R) + Len(t) /\ Len(R) \in Nat /\ Len(t) \in Nat
          /\ \A j \in 1..Len(R) : stack'[j] = R[j]
          /\ \A j \in 1..Len(t) : stack'[Len(R) + j] = t[j]
      BY <1>5, <2>4, CatIndex
    <2>6. ASSUME NEW k \in 1..Len(stack') PROVE stack'[k].op # "fire_pull"
      <3>1. CASE k \in 1..Len(R)
        <4>1. R[k] \in F
          BY <2>1, <3>1
        <4> QED BY <2>1, <2>5, <3>1, <4>1 DEF Marks
      <3>2. CASE k \notin 1..Len(R)
        <4> DEFINE j == k - Len(R)
        <4>1. j \in 1..Len(t) /\ Len(R) + j = k /\ catch + j \in 1..Len(stack) /\ catch + j # 1
          BY <2>3, <2>5, <3>2
        <4>2. stack'[Len(R) + j] = t[j] /\ t[j] = stack[catch + j]
          BY <2>3, <2>5, <4>1
        <4>3. stack'[k] = stack[catch + j]
          BY <4>1, <4>2
        <4> QED BY <4>1, <4>3 DEF Guarded, FirePullNext
      <3> QED BY <3>1, <3>2
    <2> QED BY <2>6 DEF FirePullNext
  <1> QED BY <1>9, <1>10, <1>11, <1>12, <1>13, <1>14
      DEF Guarded, GuardShape, InsideShape, PullShape, ScopeShape

(* A step of the engine keeps the guards.                                  *)
LEMMA StepGuarded ==
  ASSUME Inv, Guarded, Step
  PROVE  Guarded'
  <1>1. CASE Panic
    BY <1>1, PanicGuarded
  <1>2. CASE ~Panic
    <2>1. /\ DepthInv /\ FirePullNext /\ DeferredHeld /\ ScopeHeld /\ InsideHeld /\ PullHeld
          /\ ScopeShape /\ InsideShape /\ PullShape
      BY DEF Guarded, GuardShape, InsideShape, PullShape, ScopeShape
    <2>2. DepthInv' /\ DeferredHeld'
      BY <1>2, <2>1, StepDepth, StepDeferred
    <2>3. ScopeShape' /\ ScopeHeld'
      BY <1>2, <2>1, StepOwner
    <2>4. InsideShape' /\ InsideHeld'
      BY <1>2, <2>1, StepInsideHeld
    <2>5. PullShape' /\ PullHeld'
      BY <1>2, <2>1, StepPullHeld
    <2>6. FirePullNext'
      BY <1>2, <2>1, StepStack DEF DepthInv
    <2> QED BY <2>2, <2>3, <2>4, <2>5, <2>6
        DEF Guarded, GuardShape, InsideShape, PullShape, ScopeShape
  <1> QED BY <1>1, <1>2

-----------------------------------------------------------------------------
(* The user's calls.                                                       *)

(* What the guards say of an empty stack.                                  *)
LEMMA GuardedIdle ==
  ASSUME Guarded, stack = <<>>
  PROVE  /\ depth = 0 /\ deferred = NoDeferred /\ scope = NoScope
         /\ \A n \in Node : ~wave[n].inside /\ ~aux[n].pulling /\ ~aux[n].pullDirty
  <1>1. \A op : Held(stack, op) = {} /\ Places(stack, op) = {}
    BY DEF Held, Places
  <1>2. depth = 0
    <2>1. Balance(stack) = Cardinality({}) - Cardinality({}) /\ depth = Balance(stack)
      BY <1>1 DEF Guarded, DepthInv, Balance
    <2>2. Cardinality({}) = 0
      BY FS_EmptySet
    <2> QED BY <2>1, <2>2
  <1> QED BY <1>1, <1>2 DEF Guarded, GuardShape, DeferredHeld, ScopeHeld, InsideHeld, PullHeld

(* A stack of such calls has no open scope and serves no pull.             *)
LEMMA PlainStack ==
  ASSUME NEW s, Plain(s)
  PROVE  Balance(s) = 0 /\ Nested(s) /\ \A k \in 1..Len(s) : s[k].op # "fire_pull"
  <1>1. PICK S : s \in Seq(S) /\ \A f \in S : f.op \notin Marks
    BY DEF Plain
  <1>2. Len(s) \in Nat /\ \A k \in 1..Len(s) : s[k].op \notin Marks
    BY <1>1
  <1>3. ASSUME NEW op \in Marks PROVE Places(s, op) = {}
    <2>1. \A p \in 1..Len(s) : Len(s) + 1 - p \in 1..Len(s)
      BY <1>2
    <2> QED BY <1>2, <2>1 DEF Places
  <1>4. Places(s, "enter") = {} /\ Places(s, "finish") = {}
    BY <1>3 DEF Marks
  <1>5. Cardinality({}) = 0
    BY FS_EmptySet
  <1>6. Balance(s) = 0
    <2>1. Balance(s) = Cardinality({}) - Cardinality({})
      BY <1>4 DEF Balance
    <2> QED BY <1>5, <2>1
  <1>7. Nested(s)
    BY <1>4 DEF Nested
  <1> QED BY <1>2, <1>6, <1>7 DEF Marks

(* A call made from outside starts from nothing.                           *)
LEMMA CallGuarded ==
  ASSUME Guarded, stack = <<>>, UNCHANGED <<wave, aux, delivery>>, Plain(stack'),
         \/ UNCHANGED scope
         \/ scope' = NewScope /\ Held(stack', "owner_end") # {}
  PROVE  Guarded'
  <1>1. /\ depth = 0 /\ deferred = NoDeferred /\ scope = NoScope
        /\ \A n \in Node : ~wave[n].inside /\ ~aux[n].pulling /\ ~aux[n].pullDirty
    BY GuardedIdle
  <1>2. /\ Balance(stack') = 0 /\ Nested(stack')
        /\ \A k \in 1..Len(stack') : stack'[k].op # "fire_pull"
    BY PlainStack
  <1>3. DepthInv' /\ DeferredHeld' /\ FirePullNext'
    BY <1>1, <1>2 DEF delivery, DepthInv, DeferredHeld, FirePullNext
  <1>4. InsideHeld' /\ PullHeld'
    BY <1>1 DEF InsideHeld, PullHeld
  <1>5. ScopeShape' /\ ScopeHeld'
    <2>1. CASE UNCHANGED scope
      <3>1. scope' = NoScope
        BY <1>1, <2>1
      <3> QED BY <3>1 DEF NoScope, ScopeShape, ScopeHeld
    <2>2. CASE scope' = NewScope /\ Held(stack', "owner_end") # {}
      BY <2>2 DEF NewScope, NoScope, ScopeShape, ScopeHeld
    <2> QED BY <2>1, <2>2
  <1>6. GuardShape'
    BY <1>5 DEF Guarded, GuardShape, ScopeShape
  <1> QED BY <1>3, <1>4, <1>5, <1>6 DEF Guarded

(* A call made under a wave owner.                                         *)
LEMMA OwnedGuarded ==
  ASSUME Guarded, stack = <<>>, UNCHANGED <<wave, aux, delivery>>,
         NEW n, NEW f, f.op \notin Marks, OwnedCall(n, f)
  PROVE  Guarded'
  <1> DEFINE b == Frame("owner_end", n)
  <1>1. b.op = "owner_end"
    BY DEF Frame
  <1>2. stack' = <<f, b>> /\ scope' = NewScope
    BY DEF OwnedCall
  <1> HIDE DEF b
  <1>3. Plain(<<f, b>>)
    BY <1>1, PlainTwo DEF Marks
  <1>4. b.n \in Held(stack', "owner_end")
    BY <1>1, <1>2 DEF Held
  <1> QED BY <1>2, <1>3, <1>4, CallGuarded

(* The user's calls keep the guards.                                       *)
LEMMA UserGuarded ==
  ASSUME Inv, Guarded, User
  PROVE  Guarded'
  <1>1. CASE \E d \in Does.downs : UserDown(d[1], d[2])
    <2>1. PICK d \in Does.downs : UserDown(d[1], d[2])
      BY <1>1
    <2>2. Call("down", d[1], d[2]).op \notin Marks
      BY PlainFrames DEF Marks
    <2> QED BY <2>1, <2>2, OwnedGuarded DEF UserDown, UserCall, Idle
  <1>2. CASE \E u \in Does.ups : UserUp(u[1], u[2])
    <2>1. PICK u \in Does.ups : UserUp(u[1], u[2])
      BY <1>2
    <2>2. Call("up", u[1], <<u[2]>>).op \notin Marks
      BY PlainFrames DEF Marks
    <2> QED BY <2>1, <2>2, OwnedGuarded DEF UserUp, UserCall, Idle
  <1>3. CASE \E n \in Does.observed : UserSubscribe(n)
    <2>1. PICK n \in Does.observed : UserSubscribe(n)
      BY <1>3
    <2> DEFINE a == OfSubscriber("subscribe", n, Ext, 1)
               b == Frame("owner_end", n)
               c == Frame("subscribed", n)
    <2>2. a.op \notin Marks /\ b.op = "owner_end" /\ c.op \notin Marks
      BY PlainFrames DEF Marks, Frame
    <2>3. stack' = <<a, b, c>> /\ scope' = NewScope /\ stack = <<>>
      BY <2>1 DEF UserSubscribe, UserCall, Idle
    <2>4. UNCHANGED <<wave, aux, delivery>>
      BY <2>1 DEF UserSubscribe
    <2> HIDE DEF a, b, c
    <2>5. Plain(<<a, b, c>>)
      <3> DEFINE S == {a, b, c}
                 s == <<a, b, c>>
      <3>1. s \in Seq(S)
        OBVIOUS
      <3>2. \A h \in S : h.op \notin Marks
        BY <2>2 DEF Marks
      <3> SUFFICES Plain(s)
        OBVIOUS
      <3> HIDE DEF S, s
      <3> QED BY <3>1, <3>2 DEF Plain
    <2>6. b.n \in Held(stack', "owner_end")
      <3>1. Len(stack') = 3 /\ stack'[2] = b
        BY <2>3
      <3> QED BY <2>2, <3>1 DEF Held
    <2> QED BY <2>3, <2>4, <2>5, <2>6, CallGuarded
  <1>4. CASE \E n \in Does.observed : UserUnsubscribe(n)
    <2>1. PICK n \in Does.observed : UserUnsubscribe(n)
      BY <1>4
    <2>2. Plain(<<OfSubscriber("unsubscribe", n, Ext, 1)>>)
      BY PlainFrames DEF Marks
    <2> QED BY <2>1, <2>2, CallGuarded DEF UserUnsubscribe, UserCall, Idle
  <1>5. CASE \E n \in Node : LateEmit(n)
    <2>1. PICK n \in Node : LateEmit(n)
      BY <1>5
    <2>2. PICK k : OwnedCall(n, Call("down", n, <<Data(inflight[n][k])>>))
      BY <2>1 DEF LateEmit
    <2>3. Call("down", n, <<Data(inflight[n][k])>>).op \notin Marks
      BY PlainFrames DEF Marks
    <2> QED BY <2>1, <2>2, <2>3, OwnedGuarded DEF LateEmit, Idle
  <1>6. CASE OpenBatch
    <2>1. stack = <<>> /\ stack' = <<>> /\ UNCHANGED <<wave, aux, delivery, scope>>
      BY <1>6 DEF OpenBatch, UserCall, Idle
    <2>2. Plain(stack')
      BY <2>1, PlainEmpty
    <2> QED BY <2>1, <2>2, CallGuarded
  <1>7. CASE Commit \/ Rollback
    <2>1. PICK op \in {"commit", "rollback"} : FinishBatch(op)
      BY <1>7 DEF Commit, Rollback
    <2> DEFINE d == batch.targets
               k == Len(d)
               g == [j \in 1..k |-> Call(op, d[j], batch.waves[d[j]])]
    <2>2. k \in Nat
      BY DEF Inv, BatchInv
    <2>3. \A j \in 1..k : g[j].op \notin Marks
      BY PlainFrames DEF Marks
    <2>4. DOMAIN g = 1..k /\ g = [j \in 1..k |-> g[j]]
      OBVIOUS
    <2>5. stack' = g \o <<Frame("close_batch", NoNode)>> /\ stack = <<>>
          /\ UNCHANGED <<wave, aux, delivery, scope>>
      BY <2>1 DEF FinishBatch, Idle
    <2> HIDE DEF k, g
    <2>6. Plain(g) /\ Plain(<<Frame("close_batch", NoNode)>>)
      BY <2>2, <2>3, <2>4, PlainList, PlainFrames DEF Marks
    <2>7. Plain(stack')
      BY <2>5, <2>6, PlainCat
    <2> QED BY <2>5, <2>7, CallGuarded
  <1> QED BY <1>1, <1>2, <1>3, <1>4, <1>5, <1>6, <1>7 DEF User

(* Nothing is guarded at first.                                            *)
LEMMA InitGuarded ==
  ASSUME Init
  PROVE  Guarded
  <1>1. stack = <<>> /\ depth = 0 /\ deferred = NoDeferred /\ scope = NoScope
    BY DEF Init
  <1>2. GuardShape /\ InsideHeld /\ PullHeld
    <2>1. /\ DOMAIN wave = Node
          /\ \A n \in Node : "inside" \in DOMAIN wave[n] /\ wave[n].inside = FALSE
      BY DEF Init
    <2>2. /\ DOMAIN aux = Node
          /\ \A n \in Node : /\ {"pulling", "pullDirty"} \subseteq DOMAIN aux[n]
                             /\ aux[n].pulling = FALSE /\ aux[n].pullDirty = FALSE
      BY DEF Init
    <2>3. {"on", "touched", "blamed"} \subseteq DOMAIN scope /\ scope.on = FALSE
      BY <1>1 DEF NoScope
    <2> QED BY <2>1, <2>2, <2>3 DEF GuardShape, InsideHeld, PullHeld
  <1>3. DepthInv /\ FirePullNext
    <2>1. Plain(stack)
      BY <1>1, PlainEmpty
    <2> QED BY <1>1, <2>1, PlainStack DEF DepthInv, FirePullNext
  <1>4. DeferredHeld /\ ScopeHeld
    BY <1>1 DEF DeferredHeld, ScopeHeld, NoScope
  <1> QED BY <1>2, <1>3, <1>4 DEF Guarded

(* Every step keeps the guards.                                            *)
LEMMA NextGuarded ==
  ASSUME Inv, Guarded, [Next]_vars
  PROVE  Guarded'
  <1>1. CASE Step
    BY <1>1, StepGuarded
  <1>2. CASE User
    BY <1>2, UserGuarded
  <1>3. CASE UNCHANGED vars
    BY <1>3 DEF vars, Guarded, GuardShape, DepthInv, DeferredHeld, ScopeHeld, InsideHeld,
         PullHeld, FirePullNext
  <1> QED BY <1>1, <1>2, <1>3 DEF Next

(* When a user call has returned, be it after a panic that unwound half of *)
(* the stack, nothing of the wave is left: no delivery scope, no deferred  *)
(* action, no wave owner, no node inside its fn or serving a pull.         *)
THEOREM NothingLeftAtIdle == Spec => []QuietAtIdle
  <1>1. Init => Guarded
    BY InitGuarded
  <1>2. Inv /\ Guarded /\ [Next]_vars => Guarded'
    BY NextGuarded
  <1>3. Guarded => QuietAtIdle
    BY GuardedIdle DEF QuietAtIdle, Idle
  <1> QED BY InvHolds, <1>1, <1>2, <1>3, PTL DEF Spec

-----------------------------------------------------------------------------
(* Pause locks and pulls                                                   *)

\* Calls that lead to a run of the fn whatever is paused, and the call of PAUSE.
Wakes == {"run", "try_run", "fire_pull", "on_resume", "resume_skipped"}
Pauses(f) == f.op = "up" /\ f.ms[1].kind = "PAUSE"
Still(f) == f.op \notin Wakes /\ ~Pauses(f)
Stilled(s) == \E S : s \in Seq(S) /\ \A f \in S : Still(f)

(* Sequences of calls that run no fn and take no lock: none, one, some.    *)
LEMMA StillEmpty == Stilled(<<>>)
  <1> DEFINE S == {}
             s == <<>>
  <1>1. s \in Seq(S) /\ \A f \in S : Still(f)
    OBVIOUS
  <1> SUFFICES Stilled(s)
    OBVIOUS
  <1> HIDE DEF S, s
  <1> QED BY <1>1 DEF Stilled

(* One call.                                                               *)
LEMMA StillOne ==
  ASSUME NEW f, Still(f)
  PROVE  Stilled(<<f>>)
  <1> DEFINE S == {f}
             s == <<f>>
  <1>1. s \in Seq(S)
    OBVIOUS
  <1>2. \A g \in S : Still(g)
    BY Zenon
  <1> SUFFICES Stilled(s)
    OBVIOUS
  <1> HIDE DEF S, s
  <1> QED BY <1>1, <1>2 DEF Stilled

(* Two calls.                                                              *)
LEMMA StillTwo ==
  ASSUME NEW f, NEW g, Still(f), Still(g)
  PROVE  Stilled(<<f, g>>)
  <1> DEFINE S == {f, g}
             s == <<f, g>>
  <1>1. s \in Seq(S)
    OBVIOUS
  <1>2. \A h \in S : Still(h)
    BY Zenon
  <1> SUFFICES Stilled(s)
    OBVIOUS
  <1> HIDE DEF S, s
  <1> QED BY <1>1, <1>2 DEF Stilled

(* Three calls.                                                            *)
LEMMA StillThree ==
  ASSUME NEW f, NEW g, NEW h, Still(f), Still(g), Still(h)
  PROVE  Stilled(<<f, g, h>>)
  <1> DEFINE S == {f, g, h}
             s == <<f, g, h>>
  <1>1. s \in Seq(S)
    OBVIOUS
  <1>2. \A e \in S : Still(e)
    BY Zenon
  <1> SUFFICES Stilled(s)
    OBVIOUS
  <1> HIDE DEF S, s
  <1> QED BY <1>1, <1>2 DEF Stilled

(* Some after others.                                                      *)
LEMMA StillCat ==
  ASSUME NEW s, NEW t, Stilled(s), Stilled(t)
  PROVE  Stilled(s \o t)
  <1>1. PICK S : s \in Seq(S) /\ \A f \in S : Still(f)
    BY DEF Stilled
  <1>2. PICK T : t \in Seq(T) /\ \A f \in T : Still(f)
    BY DEF Stilled
  <1>3. s \in Seq(S \cup T) /\ t \in Seq(S \cup T)
    BY <1>1, <1>2
  <1>4. s \o t \in Seq(S \cup T)
    BY <1>3
  <1>5. \A f \in S \cup T : Still(f)
    BY <1>1, <1>2
  <1> QED BY <1>4, <1>5 DEF Stilled

(* Some, if a condition holds.                                             *)
LEMMA StillWhen ==
  ASSUME NEW c, NEW s, Stilled(s)
  PROVE  Stilled(When(c, s))
  BY StillEmpty DEF When

(* One call for each place of a list.                                      *)
LEMMA StillList ==
  ASSUME NEW k \in Nat, NEW g, DOMAIN g = 1..k, \A i \in 1..k : Still(g[i])
  PROVE  Stilled([i \in 1..k |-> g[i]])
  <1> DEFINE S == {g[i] : i \in 1..k}
  <1>1. [i \in 1..k |-> g[i]] \in Seq(S)
    OBVIOUS
  <1>2. \A f \in S : Still(f)
    OBVIOUS
  <1> QED BY <1>1, <1>2 DEF Stilled

(* The calls of most kinds.                                                *)
LEMMA StillFrames ==
  ASSUME NEW op, op \notin Wakes \cup {"up"}, NEW n, NEW ms, NEW by, NEW i
  PROVE  /\ Still(Frame(op, n)) /\ Still(Call(op, n, ms))
         /\ Still(OfSubscriber(op, n, by, i))
         /\ Stilled(<<Frame(op, n)>>) /\ Stilled(<<Call(op, n, ms)>>)
         /\ Stilled(<<OfSubscriber(op, n, by, i)>>)
  <1>1. Frame(op, n).op = op /\ Call(op, n, ms).op = op /\ OfSubscriber(op, n, by, i).op = op
    BY DEF Frame, Call, OfSubscriber
  <1>2. Still(Frame(op, n)) /\ Still(Call(op, n, ms)) /\ Still(OfSubscriber(op, n, by, i))
    BY <1>1 DEF Still, Pauses
  <1> QED BY <1>2, StillOne

(* Messages handed to subscribers are such calls.                          *)
LEMMA StillSubscriber ==
  ASSUME NEW n, NEW by, NEW i, NEW m
  PROVE  Still(ToSubscriber(n, by, i, m))
  BY DEF ToSubscriber, Call, ReceiveBy, Frame, Still, Pauses, Wakes

(* A delivery, what is left of a wave, and a message passed on upstream.   *)
LEMMA StillDeliver ==
  ASSUME SubsInv, NEW n \in Node, NEW m
  PROVE  Stilled(Deliver(n, m))
  <1> DEFINE k == Len(subs[n])
             g == [j \in 1..k |-> ToSubscriber(n, subs[n][j][1], subs[n][j][2], m)]
  <1>1. k \in Nat
    BY DEF SubsInv
  <1>2. \A j \in 1..k : Still(g[j])
    BY StillSubscriber
  <1>3. DOMAIN g = 1..k /\ Deliver(n, m) = g /\ g = [j \in 1..k |-> g[j]]
    BY DEF Deliver
  <1> HIDE DEF k, g
  <1> QED BY <1>1, <1>2, <1>3, StillList

(* A message passed on upstream.                                           *)
LEMMA StillForward ==
  ASSUME NEW n \in Node, NEW m, m.kind # "PAUSE"
  PROVE  Stilled(Forward(n, m))
  <1> DEFINE k == Len(Deps[n])
             g == [j \in 1..k |-> Call("up", Deps[n][j], <<m>>)]
  <1>1. k \in Nat /\ DepIdx(n) = 1..k
    BY DepCount
  <1>2. \A j \in 1..k : Still(g[j])
    <2> TAKE j \in 1..k
    <2>1. g[j].op = "up" /\ g[j].ms[1] = m
      BY DEF Call, Frame
    <2> QED BY <2>1 DEF Still, Pauses, Wakes
  <1>3. DOMAIN g = 1..k /\ Forward(n, m) = g /\ g = [j \in 1..k |-> g[j]]
    BY <1>1 DEF Forward
  <1> HIDE DEF k, g
  <1> QED BY <1>1, <1>2, <1>3, StillList

(* The rest of a wave.                                                     *)
LEMMA StillRest == Stilled(RestOfWave)
  BY StillFrames, StillWhen DEF RestOfWave, Wakes

(* Deferred actions.                                                       *)
LEMMA StillDeferred ==
  ASSUME DeferredInv, NEW kind \in {"deferred_run", "deferred_settle"}
  PROVE  Stilled(DeferredCalls(kind))
  <1> DEFINE k == Len(deferred[kind])
             g == [j \in 1..k |-> Frame(kind, deferred[kind][j])]
  <1>1. k \in Nat
    BY DEF DeferredInv
  <1>2. \A j \in 1..k : Still(g[j])
    BY StillFrames DEF Wakes
  <1>3. DOMAIN g = 1..k /\ DeferredCalls(kind) = g /\ g = [j \in 1..k |-> g[j]]
    BY DEF DeferredCalls
  <1> HIDE DEF k, g
  <1> QED BY <1>1, <1>2, <1>3, StillList

(* What a fn calls.                                                        *)
LEMMA StillFn ==
  ASSUME NEW n \in Node, NEW act \in FnActs[n]
  PROVE  Stilled(FnCalls(n, act))
  <1>1. act \in {"emit", "emit_complete", "complete", "none", "defer", "panic", "poke"}
    BY FnActsAssumption
  <1>2. CASE act = "emit"
    BY <1>2, StillFrames DEF FnCalls, Wakes
  <1>3. CASE act = "emit_complete"
    BY <1>3, StillFrames DEF FnCalls, Wakes
  <1>4. CASE act = "complete"
    BY <1>4, StillFrames DEF FnCalls, Wakes
  <1>5. CASE act = "none" \/ act = "defer"
    BY <1>5, StillEmpty DEF FnCalls
  <1>6. CASE act = "panic"
    BY <1>6, StillFrames DEF FnCalls, Wakes
  <1>7. CASE act = "poke"
    BY <1>7, StillFrames DEF FnCalls, Wakes
  <1> QED BY <1>1, <1>2, <1>3, <1>4, <1>5, <1>6, <1>7

-----------------------------------------------------------------------------
(* The calls most handlers make run no fn and take no lock.                *)

\* A handler at the top of the stack makes calls of that kind.
Calming == stack # <<>> /\ \E frames : Stilled(frames) /\ Calls(frames)

(* A handler that makes such calls.                                        *)
LEMMA QuietBy ==
  ASSUME NEW frames, Stilled(frames), stack # <<>>, Calls(frames)
  PROVE  Calming
  BY DEF Calming

(* Replaying a pause buffer.                                               *)
LEMMA StillReplay ==
  ASSUME NEW n, NEW buffer, IsSeq(buffer)
  PROVE  Stilled([k \in 1..Len(buffer) |-> Call("down", n, buffer[k])])
  <1> DEFINE k == Len(buffer)
             g == [j \in 1..k |-> Call("down", n, buffer[j])]
  <1>1. k \in Nat
    BY DEF IsSeq
  <1>2. \A j \in 1..k : Still(g[j])
    BY StillFrames DEF Wakes
  <1>3. DOMAIN g = 1..k /\ g = [j \in 1..k |-> g[j]]
    OBVIOUS
  <1>4. Stilled(g)
    <2> HIDE DEF k, g
    <2> QED BY <1>1, <1>2, <1>3, StillList
  <1> QED BY <1>4

(* Activation and deactivation.                                            *)
LEMMA StillEdges ==
  ASSUME NEW n \in Node, NEW H
  PROVE  /\ Stilled([i \in DepIdx(n) |-> OfSubscriber("subscribe_dep", n, n, i)])
         /\ Stilled([i \in DepIdx(n) |-> OfSubscriber("unsubscribe", Deps[n][i], n, H[i])])
  <1> DEFINE k == Len(Deps[n])
             g == [i \in 1..k |-> OfSubscriber("subscribe_dep", n, n, i)]
             h == [i \in 1..k |-> OfSubscriber("unsubscribe", Deps[n][i], n, H[i])]
  <1>1. k \in Nat /\ DepIdx(n) = 1..k
    BY DepCount
  <1>2. \A j \in 1..k : Still(g[j]) /\ Still(h[j])
    BY StillFrames DEF Wakes
  <1>3. DOMAIN g = 1..k /\ g = [j \in 1..k |-> g[j]] /\ DOMAIN h = 1..k /\ h = [j \in 1..k |-> h[j]]
    OBVIOUS
  <1>4. Stilled(g) /\ Stilled(h)
    <2> HIDE DEF k, g, h
    <2> QED BY <1>1, <1>2, <1>3, StillList
  <1> QED BY <1>1, <1>4

(* The calls of down.                                                      *)
LEMMA DownQuiet ==
  ASSUME StackInv, SubsInv, DownTerminated \/ DownIntoBatch \/ Owe \/ DownNow
  PROVE  Calming
  <1>1. CASE DownTerminated
    BY <1>1, QuietBy, StillEmpty DEF DownTerminated, At
  <1>2. CASE DownIntoBatch
    <2>1. Top.n \in Node /\ stack # <<>>
      BY <1>2, TopNode DEF DownIntoBatch
    <2>2. Stilled(Deliver(Top.n, Msg("DIRTY"))) /\ Stilled(<<Frame("owe", Top.n)>>)
      BY <2>1, StillDeliver, StillFrames DEF Wakes
    <2> QED BY <1>2, <2>1, <2>2, StillWhen, StillCat, QuietBy DEF DownIntoBatch
  <1>3. CASE Owe
    BY <1>3, QuietBy, StillEmpty DEF Owe, At
  <1>4. CASE DownNow
    <2>1. Top.n \in Node /\ stack # <<>>
      BY <1>4, TopNode DEF DownNow
    <2>2. /\ Stilled(Deliver(Top.n, Msg("DIRTY"))) /\ Stilled(<<Frame("panic", Top.n)>>)
          /\ Stilled(<<Frame("reset", Top.n)>>)
      BY <2>1, StillDeliver, StillFrames DEF Wakes
    <2>3. \A ms : Stilled(<<Frame("enter", Top.n), Call("msg", Top.n, ms), Frame("finish", Top.n)>>)
      <3> TAKE ms
      <3>1. /\ Still(Frame("enter", Top.n)) /\ Still(Call("msg", Top.n, ms)) /\ Still(Frame("finish", Top.n))
        BY StillFrames DEF Wakes
      <3> QED BY <3>1, StillThree
    <2> QED BY <1>4, <2>1, <2>2, <2>3, StillEmpty, StillWhen, StillCat, QuietBy DEF DownNow
  <1> QED BY <1>1, <1>2, <1>3, <1>4

(* The calls of the delivery guard and of the deferred actions.            *)
LEMMA DeliveryQuiet ==
  ASSUME StackInv, DeferredInv,
         Enter \/ Finish \/ Drain \/ ApplyDeferred \/ Reset \/ Undirty
  PROVE  Calming
  <1>0. stack # <<>>
    BY DEF Enter, Finish, Drain, ApplyDeferred, Reset, Undirty, At
  <1>1. CASE Enter
    BY <1>0, <1>1, QuietBy, StillEmpty DEF Enter
  <1>2. CASE Finish
    <2>2. Stilled(<<Frame("drain", Top.n)>>)
      BY StillFrames DEF Wakes
    <2> QED BY <1>0, <1>2, <2>2, StillWhen, QuietBy DEF Finish
  <1>3. CASE Drain
    <2>1. Top.op = "drain"
      BY <1>3 DEF Drain, At, Top
    <2>2. /\ Stilled(<<Top>>) /\ Stilled(DeferredCalls("deferred_run"))
          /\ Stilled(DeferredCalls("deferred_settle"))
      BY <2>1, StillOne, StillDeferred DEF Still, Pauses, Wakes
    <2> QED BY <1>0, <1>3, <2>2, StillWhen, StillCat, QuietBy DEF Drain
  <1>4. CASE ApplyDeferred
    <2>2. Stilled(<<Frame("maybe_run", Top.n)>>) /\ Stilled(<<Frame("settle", Top.n)>>)
      BY StillFrames DEF Wakes
    <2> QED BY <1>0, <1>4, <2>2, StillWhen, QuietBy DEF ApplyDeferred
  <1>5. CASE Reset
    BY <1>0, <1>5, QuietBy, StillEmpty DEF Reset
  <1>6. CASE Undirty
    BY <1>0, <1>6, QuietBy, StillEmpty DEF Undirty
  <1> QED BY <1>1, <1>2, <1>3, <1>4, <1>5, <1>6

(* The calls one message of a wave makes.                                  *)
LEMMA MsgQuiet ==
  ASSUME StackInv, SubsInv,
         MsgDirty \/ MsgData \/ MsgResolved \/ MsgInvalidate \/ MsgTerminal \/ MsgTeardown
  PROVE  Calming
  <1>1. Top.n \in Node /\ stack # <<>>
    BY TopNode DEF MsgDirty, MsgData, MsgResolved, MsgInvalidate, MsgTerminal, MsgTeardown, AtMsg
  <1>2. Stilled(RestOfWave) /\ \A m : Stilled(Deliver(Top.n, m))
    BY <1>1, StillRest, StillDeliver
  <1>3. CASE MsgDirty
    BY <1>1, <1>2, <1>3, StillWhen, StillCat, QuietBy DEF MsgDirty
  <1>4. CASE MsgData
    BY <1>1, <1>2, <1>4, StillCat, QuietBy DEF MsgData
  <1>5. CASE MsgResolved
    BY <1>1, <1>2, <1>5, StillCat, QuietBy DEF MsgResolved
  <1>6. CASE MsgInvalidate
    BY <1>1, <1>2, <1>6, StillWhen, StillCat, QuietBy DEF MsgInvalidate
  <1>7. CASE MsgTerminal
    BY <1>1, <1>2, <1>7, StillWhen, StillCat, QuietBy DEF MsgTerminal
  <1>8. CASE MsgTeardown
    BY <1>1, <1>2, <1>8, StillCat, QuietBy DEF MsgTeardown
  <1> QED BY <1>3, <1>4, <1>5, <1>6, <1>7, <1>8

(* The calls a message from a dependency makes.                            *)
LEMMA ReceiveQuiet ==
  ASSUME StackInv, SubsInv,
         ReceiveIdle \/ ReceiveDirty \/ ReceiveSettle \/ ReceiveInvalidate \/ ReceiveTerminal
         \/ ReceiveTeardown
  PROVE  Calming
  <1>1. Top.n \in Node /\ stack # <<>>
    BY TopNode DEF ReceiveIdle, ReceiveDirty, ReceiveSettle, ReceiveInvalidate, ReceiveTerminal,
                   ReceiveTeardown, AtReceive
  <1>2. \A m : Stilled(Deliver(Top.n, m))
    BY <1>1, StillDeliver
  <1>3. \A ms : Still(Call("down", Top.n, ms)) /\ Stilled(<<Call("down", Top.n, ms)>>)
    BY StillFrames DEF Wakes
  <1>4. /\ Still(Frame("maybe_run", Top.n)) /\ Still(Frame("settle", Top.n))
        /\ Still(Frame("fire_demand", Top.n)) /\ Stilled(<<Frame("fire_demand", Top.n)>>)
        /\ Stilled(<<Frame("invalidate", Top.n)>>) /\ Stilled(<<Frame("undirty", Top.n)>>)
    BY StillFrames DEF Wakes
  <1>5. CASE ReceiveIdle
    BY <1>1, <1>2, <1>5, StillWhen, QuietBy DEF ReceiveIdle
  <1>6. CASE ReceiveDirty
    BY <1>1, <1>2, <1>6, StillWhen, QuietBy DEF ReceiveDirty
  <1>7. CASE ReceiveSettle
    <2>1. Stilled(<<Frame("maybe_run", Top.n), Frame("fire_demand", Top.n)>>)
      BY <1>4, StillTwo
    <2> QED BY <1>1, <1>7, <2>1, StillWhen, QuietBy DEF ReceiveSettle
  <1>8. CASE ReceiveInvalidate
    BY <1>1, <1>3, <1>4, <1>8, StillWhen, StillCat, QuietBy DEF ReceiveInvalidate
  <1>9. CASE ReceiveTerminal
    <2>1. \A f : Still(f) => Stilled(<<f, Frame("fire_demand", Top.n)>>)
      BY <1>4, StillTwo
    <2> QED BY <1>1, <1>3, <1>4, <1>9, <2>1, QuietBy DEF ReceiveTerminal
  <1>10. CASE ReceiveTeardown
    BY <1>1, <1>3, <1>10, QuietBy DEF ReceiveTeardown
  <1> QED BY <1>5, <1>6, <1>7, <1>8, <1>9, <1>10

(* The calls around the run of a fn, but for those that decide to run it.  *)
LEMMA RunQuiet ==
  ASSUME StackInv,
         Passthrough \/ Settle \/ SettleRest \/ Run \/ RunEnd \/ Roll
  PROVE  Calming
  <1>1. Top.n \in Node /\ stack # <<>>
    BY TopNode DEF Passthrough, Settle, SettleRest, Run, RunEnd, Roll
  <1>2. \A ms : Stilled(<<Call("down", Top.n, ms)>>)
    BY StillFrames DEF Wakes
  <1>3. /\ Stilled(<<Frame("maybe_run", Top.n)>>) /\ Stilled(<<Frame("settle_rest", Top.n)>>)
        /\ Stilled(<<Frame("panic", Top.n)>>) /\ Stilled(<<Frame("run_end", Top.n)>>)
        /\ Stilled(<<Frame("roll", Top.n)>>) /\ Stilled(<<Frame("roll_undirty", Top.n)>>)
    BY StillFrames DEF Wakes
  <1>7. CASE Passthrough
    BY <1>1, <1>2, <1>7, StillWhen, QuietBy DEF Passthrough
  <1>8. CASE Settle
    BY <1>1, <1>3, <1>8, StillWhen, StillCat, QuietBy DEF Settle
  <1>9. CASE SettleRest
    BY <1>1, <1>2, <1>9, StillWhen, QuietBy DEF SettleRest
  <1>10. CASE Run
    <2>1. \A act \in FnActs[Top.n] : Stilled(FnCalls(Top.n, act))
      BY <1>1, StillFn
    <2> QED BY <1>1, <1>3, <1>10, <2>1, StillCat, QuietBy DEF Run
  <1>11. CASE RunEnd
    BY <1>1, <1>2, <1>3, <1>11, StillWhen, StillCat, QuietBy DEF RunEnd
  <1>12. CASE Roll
    BY <1>1, <1>12, StillEmpty, QuietBy DEF Roll
  <1> QED BY <1>7, <1>8, <1>9, <1>10, <1>11, <1>12

(* The calls of up that pause and resume nothing.                          *)
LEMMA UpQuiet ==
  ASSUME StackInv, UpPull \/ UpRequest \/ PullEnd
  PROVE  Calming
  <1>1. Top.n \in Node /\ stack # <<>>
    BY TopNode DEF UpPull, UpRequest, PullEnd, AtUp
  <1>2. /\ Stilled(<<Frame("fire_demand", Top.n)>>)
        /\ Stilled(<<Call("down", Top.n, <<Msg("INVALIDATE")>>)>>)
    BY StillFrames DEF Wakes
  <1>3. CASE UpPull
    <2>1. Stilled(Forward(Top.n, Top.ms[1]))
      BY <1>1, <1>3, StillForward DEF UpPull, AtUp
    <2> QED BY <1>1, <1>2, <1>3, <2>1, StillWhen, QuietBy DEF UpPull
  <1>4. CASE UpRequest
    <2>1. Stilled(Forward(Top.n, Top.ms[1]))
      BY <1>1, <1>4, StillForward DEF UpRequest, AtUp
    <2> QED BY <1>1, <1>2, <1>4, <2>1, StillWhen, QuietBy DEF UpRequest
  <1>5. CASE PullEnd
    BY <1>1, <1>5, StillEmpty, QuietBy DEF PullEnd
  <1> QED BY <1>3, <1>4, <1>5

(* The calls of subscription, activation and deactivation.                 *)
LEMMA SubscribeQuiet ==
  ASSUME StackInv,
         Subscribe \/ Activate \/ SubscribeDep \/ SubscribedDep \/ Unsubscribe
         \/ Deactivate \/ Subscribed
  PROVE  Calming
  <1>1. Top.n \in Node /\ stack # <<>>
    BY TopNode DEF Subscribe, Activate, SubscribeDep, SubscribedDep, Unsubscribe,
                   Deactivate, Subscribed
  <1>2. /\ Stilled(<<Frame("activate", Top.n)>>) /\ Stilled(<<Frame("produce", Top.n)>>)
        /\ Stilled(<<Frame("panic", Top.n)>>) /\ Stilled(<<Frame("deactivate", Top.n)>>)
    BY StillFrames DEF Wakes
  <1>3. CASE Subscribe
    <2>2. \A m : Stilled(<<ToSubscriber(Top.n, Top.by, Top.i, m)>>)
      BY StillSubscriber, StillOne
    <2> QED BY <1>1, <1>2, <1>3, <2>2, StillEmpty, StillWhen, StillCat, QuietBy DEF Subscribe
  <1>4. CASE Activate
    <2>1. Stilled([i \in DepIdx(Top.n) |-> OfSubscriber("subscribe_dep", Top.n, Top.n, i)])
      BY <1>1, StillEdges
    <2> QED BY <1>1, <1>2, <1>4, <2>1, StillEmpty, StillCat, QuietBy DEF Activate
  <1>5. CASE SubscribeDep
    <2>1. Stilled(<<OfSubscriber("subscribe", Deps[Top.n][Top.i], Top.n, Top.i),
                  OfSubscriber("subscribed_dep", Top.n, Top.n, Top.i)>>)
      <3>1. \A n, by, i : /\ Still(OfSubscriber("subscribe", n, by, i))
                          /\ Still(OfSubscriber("subscribed_dep", n, by, i))
        BY StillFrames DEF Wakes
      <3> QED BY <3>1, StillTwo
    <2> QED BY <1>1, <1>5, <2>1, QuietBy DEF SubscribeDep
  <1>6. CASE SubscribedDep
    BY <1>1, <1>2, <1>6, StillEmpty, QuietBy DEF SubscribedDep
  <1>8. CASE Unsubscribe
    BY <1>1, <1>2, <1>8, StillEmpty, StillWhen, QuietBy DEF Unsubscribe
  <1>9. CASE Deactivate
    <2> DEFINE H == [i \in DepIdx(Top.n) |-> IF i \in aux[Top.n].unsubs THEN i ELSE NoHandle]
               frames == [i \in DepIdx(Top.n) |->
                             OfSubscriber("unsubscribe", Deps[Top.n][i], Top.n,
                                          IF i \in aux[Top.n].unsubs THEN i ELSE NoHandle)]
    <2>1. Stilled([i \in DepIdx(Top.n) |->
                   OfSubscriber("unsubscribe", Deps[Top.n][i], Top.n, H[i])])
      <3> HIDE DEF H
      <3> QED BY <1>1, StillEdges
    <2>2. Stilled(frames)
      BY <2>1
    <2>3. Calls(frames)
      BY <1>9 DEF Deactivate
    <2> HIDE DEF frames
    <2> QED BY <1>1, <2>2, <2>3, QuietBy
  <1>10. CASE Subscribed
    BY <1>1, <1>10, StillEmpty, QuietBy DEF Subscribed
  <1> QED BY <1>3, <1>4, <1>5, <1>6, <1>8, <1>9, <1>10

(* The calls of external sinks, of wave owners and of batches.             *)
LEMMA OwnerQuiet ==
  ASSUME Sink \/ OwnedDown \/ OwnerEnd \/ Recovered \/ CommitTarget \/ RollbackTarget
         \/ CloseBatch
  PROVE  Calming
  <1>1. stack # <<>>
    BY DEF Sink, OwnedDown, OwnerEnd, Recovered, CommitTarget, RollbackTarget, CloseBatch, At
  <1>2. \A ms : Stilled(<<Call("down", Top.n, ms)>>) /\ Stilled(<<Call("owned_down", Top.n, ms)>>)
    BY StillFrames DEF Wakes
  <1>3. Stilled(<<Frame("panic", Top.n)>>) /\ Stilled(<<Frame("owner_end", Top.n)>>)
    BY StillFrames DEF Wakes
  <1>4. CASE Sink
    <2>1. \A t \in Does.observed : Stilled(<<OfSubscriber("unsubscribe", t, Ext, 1)>>)
      BY StillFrames DEF Wakes
    <2> QED BY <1>1, <1>3, <1>4, <2>1, StillEmpty, QuietBy DEF Sink
  <1>5. CASE OwnedDown
    BY <1>1, <1>2, <1>3, <1>5, StillWhen, StillCat, QuietBy DEF OwnedDown
  <1>6. CASE OwnerEnd
    BY <1>1, <1>6, StillEmpty, QuietBy DEF OwnerEnd
  <1>7. CASE Recovered
    BY <1>1, <1>7, StillEmpty, QuietBy DEF Recovered
  <1>8. CASE CommitTarget
    BY <1>1, <1>2, <1>8, QuietBy DEF CommitTarget
  <1>9. CASE RollbackTarget
    BY <1>1, <1>2, <1>9, StillWhen, QuietBy DEF RollbackTarget
  <1>10. CASE CloseBatch
    BY <1>1, <1>10, StillEmpty, QuietBy DEF CloseBatch
  <1> QED BY <1>4, <1>5, <1>6, <1>7, <1>8, <1>9, <1>10

-----------------------------------------------------------------------------
(* What a call found on the stack may rely on.                             *)

\* The last lock of a node that is no pull node has been released.
Unlocked(a, n) == a[n].locks = {} /\ ~Config[n].pull
Quieted(a, n) == a[n].locks # {} \/ (Config[n].pull /\ ~a[n].pulling)

\* A call that waits below others: it runs no fn and takes no lock, and the
\* node it resumes is still unlocked.
Waits(a, f) ==
    /\ f.op \notin {"run", "try_run", "fire_pull"} /\ ~Pauses(f)
    /\ f.op \in {"on_resume", "resume_skipped"} => Unlocked(a, f.n)

\* The call on top.
Free(a, f) ==
    /\ f.op \in {"on_resume", "resume_skipped"} => Unlocked(a, f.n)
    /\ f.op = "fire_pull" => a[f.n].locks = {} /\ a[f.n].pulling
    /\ f.op = "try_run" => ~Quieted(a, f.n)
    /\ f.op = "run" /\ Deps[f.n] # <<>> => ~(Config[f.n].mode = "true" /\ Quieted(a, f.n))

\* A PAUSE is the whole call of the user.
PauseAlone == Pauses(stack[1]) => \A k \in 2..Len(stack) : stack[k].op = "owner_end"

LockShape == DOMAIN aux = Node /\ \A n \in Node : {"locks", "pulling"} \subseteq DOMAIN aux[n]

PauseInv ==
    /\ LockShape
    /\ \A k \in 2..Len(stack) : Waits(aux, stack[k])
    /\ stack # <<>> => Free(aux, stack[1]) /\ PauseAlone

\* No lock is taken.
NoNewLock == LockShape' /\ \A n \in Node : aux[n].locks = {} => aux'[n].locks = {}

(* A call that runs nothing may be anywhere on the stack.                  *)
LEMMA StillWaits ==
  ASSUME NEW f, Still(f)
  PROVE  (\A a : Waits(a, f) /\ Free(a, f)) /\ ~Pauses(f)
  BY DEF Still, Wakes, Waits, Free

(* Calls made by the handler on top, if no lock is taken and the first of  *)
(* them may run.                                                           *)
LEMMA PauseCalls ==
  ASSUME StackInv, PauseInv, NoNewLock, stack # <<>>, NEW F, NEW frames \in Seq(F), Calls(frames),
         frames # <<>> => Free(aux', frames[1]) /\ ~Pauses(frames[1]),
         \A k \in 2..Len(frames) : Waits(aux', frames[k])
  PROVE  PauseInv'
  <1>1. PICK S : stack \in Seq(S) /\ \A f \in S : FrameOK(f)
    BY DEF StackInv, Good
  <1> DEFINE u == Tail(stack)
             V == F \cup S
  <1>2. u \in Seq(S) /\ Len(u) = Len(stack) - 1 /\ Len(stack) \in Nat /\ \A j \in 1..Len(u) : u[j] = stack[j + 1]
    BY <1>1
  <1>3. ASSUME NEW j \in 1..Len(u) PROVE Waits(aux', u[j]) /\ Free(aux', u[j]) /\ ~Pauses(u[j])
    <2>1. j + 1 \in 2..Len(stack) /\ u[j] = stack[j + 1] /\ u[j] \in S
      BY <1>2
    <2>2. Waits(aux, u[j]) /\ FrameOK(u[j])
      BY <1>1, <2>1 DEF PauseInv
    <2> DEFINE f == u[j]
    <2>3. Waits(aux, f) /\ FrameOK(f)
      BY <2>1, <2>2
    <2>4. f.op \in {"on_resume", "resume_skipped"} => f.n \in Node
      BY <2>2 DEF FrameOK
    <2> HIDE DEF f
    <2>5. f.op \in {"on_resume", "resume_skipped"} => Unlocked(aux', f.n)
      BY <2>3, <2>4 DEF Waits, Unlocked, NoNewLock
    <2>6. Waits(aux', f) /\ Free(aux', f) /\ ~Pauses(f)
      BY <2>3, <2>5 DEF Waits, Free
    <2> QED BY <2>6 DEF f
  <1> HIDE DEF u, V
  <1>4. frames \in Seq(V) /\ u \in Seq(V) /\ stack' = frames \o u
    BY <1>2 DEF Calls, u, V
  <1>5. /\ Len(stack') = Len(frames) + Len(u) /\ Len(frames) \in Nat /\ Len(u) \in Nat
        /\ \A j \in 1..Len(frames) : stack'[j] = frames[j]
        /\ \A j \in 1..Len(u) : stack'[Len(frames) + j] = u[j]
    BY <1>4, CatIndex
  <1>6. ASSUME NEW k \in 2..Len(stack') PROVE Waits(aux', stack'[k])
    <2>1. CASE k \in 1..Len(frames)
      BY <1>5, <1>6, <2>1
    <2>2. CASE k \notin 1..Len(frames)
      <3> DEFINE j == k - Len(frames)
      <3>1. j \in 1..Len(u) /\ Len(frames) + j = k
        BY <1>5, <1>6, <2>2
      <3>2. stack'[k] = u[j]
        BY <1>5, <3>1
      <3> QED BY <1>3, <3>1, <3>2
    <2> QED BY <2>1, <2>2
  <1>7. ASSUME stack' # <<>> PROVE Free(aux', stack'[1]) /\ ~Pauses(stack'[1])
    <2>1. CASE frames = <<>>
      <3>1. Len(frames) = 0 /\ stack' = u
        BY <1>4, <2>1
      <3>2. u # <<>> /\ 1 \in 1..Len(u)
        BY <1>2, <1>7, <3>1
      <3> QED BY <1>3, <3>1, <3>2
    <2>2. CASE frames # <<>>
      <3>1. 1 \in 1..Len(frames)
        BY <2>2
      <3> QED BY <1>5, <2>2, <3>1
    <2> QED BY <2>1, <2>2
  <1> QED BY <1>6, <1>7 DEF PauseInv, PauseAlone, NoNewLock

(* The handlers that take no lock.                                         *)
LEMMA LockSame ==
  ASSUME LockShape, UNCHANGED aux
  PROVE  NoNewLock
  BY DEF LockShape, NoNewLock

(* One other field.                                                        *)
LEMMA LockField ==
  ASSUME LockShape, NEW n, NEW x,
         \/ aux' = [aux EXCEPT ![n].buffer = x] \/ aux' = [aux EXCEPT ![n].skipped = x]
         \/ aux' = [aux EXCEPT ![n].demand = x] \/ aux' = [aux EXCEPT ![n].ran = x]
         \/ aux' = [aux EXCEPT ![n].unsubs = x]
  PROVE  NoNewLock
  BY DEF LockShape, NoNewLock

(* A node that is quiesced.                                                *)
LEMMA LockQuiesced ==
  ASSUME LockShape, NEW n, aux' = [aux EXCEPT ![n] = Quiesced(@)]
  PROVE  NoNewLock
  BY DEF LockShape, NoNewLock, Quiesced

(* No handler but that of PAUSE takes a lock.                              *)
LEMMA StepLocks ==
  ASSUME LockShape, Step
  PROVE  NoNewLock \/ UpPause
  <1>1. CASE DownTerminated \/ DownIntoBatch \/ Owe \/ Enter \/ Finish \/ Drain
             \/ ApplyDeferred \/ Reset
    BY <1>1, LockSame DEF DownTerminated, DownIntoBatch, Owe, Enter, Finish, Drain,
         ApplyDeferred, Reset
  <1>2. CASE MsgDirty \/ MsgData \/ MsgResolved \/ MsgInvalidate \/ MsgTeardown
    BY <1>2, LockSame DEF MsgDirty, MsgData, MsgResolved, MsgInvalidate, MsgTeardown
  <1>3. CASE ReceiveIdle \/ ReceiveDirty \/ Undirty \/ ReceiveTerminal \/ ReceiveTeardown
    BY <1>3, LockSame DEF ReceiveIdle, ReceiveDirty, Undirty, ReceiveTerminal, ReceiveTeardown
  <1>4. CASE TryRun \/ Passthrough \/ Settle \/ SettleRest \/ RunEnd \/ Roll \/ UpRequest
    BY <1>4, LockSame DEF TryRun, Passthrough, Settle, SettleRest, RunEnd, Roll, UpRequest
  <1>5. CASE Subscribe \/ SubscribeDep \/ Produce \/ Unsubscribe \/ Sink \/ OwnedDown
             \/ OwnerEnd \/ Recovered \/ CommitTarget \/ RollbackTarget \/ CloseBatch \/ Subscribed
    BY <1>5, LockSame DEF Subscribe, SubscribeDep, Produce, Unsubscribe, Sink, OwnedDown,
         OwnerEnd, Recovered, CommitTarget, RollbackTarget, CloseBatch, Subscribed
  <1>6. CASE DownNow
    BY <1>6, LockSame, LockField DEF DownNow
  <1>7. CASE ReceiveSettle \/ ReceiveInvalidate \/ MaybeRun \/ ResumeSkipped \/ UpPull
    BY <1>7, LockField DEF ReceiveSettle, ReceiveInvalidate, MaybeRun, ResumeSkipped, UpPull
  <1>8. CASE UpResume
    BY <1>8 DEF UpResume, LockShape, NoNewLock
  <1>9. CASE Run
    BY <1>9, LockSame, LockField DEF Run
  <1>10. CASE SubscribedDep
    BY <1>10, LockSame, LockField DEF SubscribedDep
  <1>11. CASE Activate
    BY <1>11, LockSame DEF Activate, LockShape, NoNewLock
  <1>12. CASE MsgTerminal
    BY <1>12, LockSame, LockQuiesced DEF MsgTerminal
  <1>13. CASE OnResume
    BY <1>13, LockField, LockQuiesced DEF OnResume
  <1>14. CASE Deactivate
    BY <1>14 DEF Deactivate, Quiesced, LockShape, NoNewLock
  <1>15. CASE FireDemand
    BY <1>15, LockSame DEF FireDemand, LockShape, NoNewLock
  <1>16. CASE FirePull
    BY <1>16 DEF FirePull, LockShape, NoNewLock
  <1>17. CASE PullEnd
    BY <1>17 DEF PullEnd, LockShape, NoNewLock
  <1>18. CASE Panic
    <2>1. PICK P : aux' = [m \in Node |-> IF m \in P
                    THEN [aux[m] EXCEPT !.pulling = FALSE, !.pullDirty = FALSE] ELSE aux[m]]
      BY <1>18 DEF Panic
    <2> QED BY <2>1 DEF LockShape, NoNewLock
  <1> QED BY <1>1, <1>2, <1>3, <1>4, <1>5, <1>6, <1>7, <1>8, <1>9, <1>10, <1>11, <1>12,
             <1>13, <1>14, <1>15, <1>16, <1>17, <1>18 DEF Step

(* The handlers whose calls run nothing.                                   *)
LEMMA CalmingPause ==
  ASSUME StackInv, PauseInv, NoNewLock, Calming
  PROVE  PauseInv'
  <1>1. PICK frames : Stilled(frames) /\ Calls(frames) /\ stack # <<>>
    BY DEF Calming
  <1>2. PICK F : frames \in Seq(F) /\ \A f \in F : Still(f)
    BY <1>1 DEF Stilled
  <1>3. \A k \in 1..Len(frames) : Still(frames[k])
    BY <1>2
  <1>4. frames # <<>> => Free(aux', frames[1]) /\ ~Pauses(frames[1])
    <2>1. frames # <<>> => 1 \in 1..Len(frames)
      BY <1>2
    <2> QED BY <1>3, <2>1, StillWaits
  <1>5. \A k \in 2..Len(frames) : Waits(aux', frames[k])
    <2>1. \A k \in 2..Len(frames) : k \in 1..Len(frames)
      BY <1>2
    <2> QED BY <1>3, <2>1, StillWaits
  <1> QED BY <1>1, <1>2, <1>4, <1>5, PauseCalls

(* A handler that makes one call, or two of which the second runs nothing. *)
LEMMA FirstPause ==
  ASSUME StackInv, PauseInv, NoNewLock, stack # <<>>, NEW f, Free(aux', f), ~Pauses(f),
         \/ Calls(<<f>>)
         \/ \E g : Still(g) /\ Calls(<<f, g>>)
  PROVE  PauseInv'
  <1>1. CASE Calls(<<f>>)
    <2> DEFINE s == <<f>>
    <2>1. s \in Seq({f}) /\ s[1] = f /\ Len(s) = 1
      OBVIOUS
    <2>2. Calls(s)
      BY <1>1
    <2> HIDE DEF s
    <2> QED BY <2>1, <2>2, PauseCalls
  <1>2. ASSUME NEW g, Still(g), Calls(<<f, g>>) PROVE PauseInv'
    <2> DEFINE s == <<f, g>>
    <2>1. s \in Seq({f, g}) /\ s[1] = f /\ s[2] = g /\ Len(s) = 2
      OBVIOUS
    <2>2. Calls(s) /\ Waits(aux', g)
      BY <1>2, StillWaits
    <2> HIDE DEF s
    <2> QED BY <2>1, <2>2, PauseCalls
  <1> QED BY <1>1, <1>2

(* Two calls, one after the other.                                         *)
LEMMA TwoCalls ==
  ASSUME NEW f, NEW g
  PROVE  <<f>> \o <<g>> = <<f, g>>
  <1> DEFINE s == <<f>>
             t == <<g>>
             r == <<f, g>>
             V == {f, g}
  <1>1. /\ s \in Seq(V) /\ t \in Seq(V) /\ r \in Seq(V) /\ Len(s) = 1 /\ Len(t) = 1 /\ Len(r) = 2
        /\ s[1] = f /\ t[1] = g /\ r[1] = f /\ r[2] = g
    OBVIOUS
  <1> HIDE DEF s, t, r, V
  <1>2. s \o t \in Seq(V) /\ Len(s \o t) = 2 /\ (s \o t)[1] = f /\ (s \o t)[2] = g
    <2>1. /\ s \o t \in Seq(V) /\ Len(s \o t) = Len(s) + Len(t)
          /\ \A k \in 1..Len(s) : (s \o t)[k] = s[k]
          /\ \A k \in 1..Len(t) : (s \o t)[Len(s) + k] = t[k]
      BY <1>1, CatIndex
    <2>2. 1 \in 1..Len(s) /\ 1 \in 1..Len(t) /\ Len(s) + 1 = 2 /\ Len(s) + Len(t) = 2
      BY <1>1
    <2>3. (s \o t)[1] = s[1] /\ (s \o t)[Len(s) + 1] = t[1]
      BY <2>1, <2>2
    <2> QED BY <1>1, <2>1, <2>2, <2>3
  <1>3. s \o t = r
    BY <1>1, <1>2
  <1> QED BY <1>3 DEF s, t, r

(* A handler that makes no call.                                           *)
LEMMA NoCallPause ==
  ASSUME StackInv, PauseInv, NoNewLock, stack # <<>>, Calls(<<>>)
  PROVE  PauseInv'
  BY StillEmpty, QuietBy, CalmingPause

(* A run that is decided on, or a wire that relays.                        *)
LEMMA RunPause ==
  ASSUME StackInv, PauseInv, NoNewLock, stack # <<>>, NEW n, Calls(RunOrRelay(n)),
         Deps[n] # <<>> => ~(Config[n].mode = "true" /\ Quieted(aux', n))
  PROVE  PauseInv'
  <1>1. CASE Config[n].fn
    <2>1. Calls(<<Frame("run", n)>>)
      BY <1>1 DEF RunOrRelay
    <2>2. Free(aux', Frame("run", n)) /\ ~Pauses(Frame("run", n))
      BY DEF Frame, Free, Pauses
    <2> QED BY <2>1, <2>2, FirstPause
  <1>2. CASE ~Config[n].fn
    <2>1. Calls(<<Frame("passthrough", n)>>)
      BY <1>2 DEF RunOrRelay
    <2>2. Free(aux', Frame("passthrough", n)) /\ ~Pauses(Frame("passthrough", n))
      BY DEF Frame, Free, Pauses
    <2> QED BY <2>1, <2>2, FirstPause
  <1> QED BY <1>1, <1>2

(* The handlers that decide on a run.                                      *)
LEMMA DecidePause ==
  ASSUME StackInv, PauseInv, NoNewLock, MaybeRun \/ TryRun \/ Produce
  PROVE  PauseInv'
  <1>1. Top.n \in Node /\ stack # <<>>
    BY TopNode DEF MaybeRun, TryRun, Produce
  <1>2. CASE MaybeRun
    <2>1. CASE Calls(<<>>)
      BY <1>1, <2>1, NoCallPause
    <2>2. CASE Calls(RunOrRelay(Top.n)) /\ ~SkipsWave(Top.n)
      <3>1. aux'[Top.n].locks = aux[Top.n].locks /\ aux'[Top.n].pulling = aux[Top.n].pulling
        BY <1>1, <1>2 DEF MaybeRun, PauseInv, LockShape
      <3>2. ~(Config[Top.n].mode = "true" /\ Quieted(aux', Top.n))
        BY <2>2, <3>1 DEF SkipsWave, Paused, PullQuiet, Quieted
      <3> QED BY <1>1, <2>2, <3>2, RunPause
    <2> QED BY <1>2, <2>1, <2>2 DEF MaybeRun, When
  <1>3. CASE TryRun
    <2>1. CASE Calls(<<>>)
      BY <1>1, <2>1, NoCallPause
    <2>2. CASE Calls(RunOrRelay(Top.n))
      <3>1. ~Quieted(aux', Top.n)
        BY <1>1, <1>3 DEF TryRun, At, Top, PauseInv, Free
      <3> QED BY <1>1, <2>2, <3>1, RunPause
    <2> QED BY <1>3, <2>1, <2>2 DEF TryRun, When
  <1>4. CASE Produce
    <2>1. CASE Calls(<<>>)
      BY <1>1, <2>1, NoCallPause
    <2>2. CASE Calls(<<Frame("run", Top.n)>>) /\ Deps[Top.n] = <<>>
      <3>1. Free(aux', Frame("run", Top.n)) /\ ~Pauses(Frame("run", Top.n))
        BY <2>2 DEF Frame, Free, Pauses
      <3> QED BY <1>1, <2>2, <3>1, FirstPause
    <2> QED BY <1>4, <2>1, <2>2 DEF Produce, When
  <1> QED BY <1>2, <1>3, <1>4

(* The handlers that resume a node.                                        *)
LEMMA ResumePause ==
  ASSUME StackInv, AuxInv, PauseInv, NoNewLock, UpResume \/ OnResume \/ ResumeSkipped
  PROVE  PauseInv'
  <1>1. Top.n \in Node /\ stack # <<>>
    BY TopNode DEF UpResume, OnResume, ResumeSkipped, AtUp
  <1>2. CASE UpResume
    <2> DEFINE n == Top.n
               lock == Top.ms[1].v
               f == Frame("on_resume", n)
               g == Frame("fire_demand", n)
    <2>1. Still(g) /\ Stilled(<<g>>)
      BY StillFrames DEF Wakes
    <2>2. CASE lock \in aux[n].locks /\ aux[n].locks = {lock} /\ ~Config[n].pull
      <3>1. aux'[n].locks = {}
        BY <1>1, <1>2, <2>2 DEF UpResume, PauseInv, LockShape
      <3>2. Free(aux', f) /\ ~Pauses(f)
        BY <2>2, <3>1 DEF Frame, Free, Pauses, Unlocked
      <3>3. stack' = (<<f>> \o <<g>>) \o Tail(stack)
        BY <1>2, <2>2 DEF UpResume, Calls, When
      <3>4. Calls(<<f, g>>)
        <4> HIDE DEF f, g
        <4>1. <<f>> \o <<g>> = <<f, g>>
          BY TwoCalls
        <4> QED BY <3>3, <4>1 DEF Calls
      <3> HIDE DEF f, g
      <3> QED BY <1>1, <2>1, <3>2, <3>4, FirstPause
    <2>3. CASE lock \in aux[n].locks /\ ~(aux[n].locks = {lock} /\ ~Config[n].pull)
      <3>1. Calls(<<>> \o <<g>>)
        BY <1>2, <2>3 DEF UpResume, When
      <3>2. Stilled(<<>> \o <<g>>)
        BY <2>1, StillEmpty, StillCat
      <3> QED BY <1>1, <3>1, <3>2, QuietBy, CalmingPause
    <2>4. CASE lock \notin aux[n].locks
      <3>1. Stilled(Forward(n, Top.ms[1]))
        BY <1>1, <1>2, StillForward DEF UpResume, AtUp
      <3>2. Calls(Forward(n, Top.ms[1]))
        BY <1>2, <2>4 DEF UpResume
      <3> QED BY <1>1, <3>1, <3>2, QuietBy, CalmingPause
    <2> QED BY <2>2, <2>3, <2>4
  <1>3. CASE OnResume
    <2> DEFINE n == Top.n
               buffer == aux[n].buffer
               replay == [k \in 1..Len(buffer) |-> Call("down", n, buffer[k])]
               f == Frame("resume_skipped", n)
    <2>1. CASE Calls(<<>>)
      BY <1>1, <2>1, NoCallPause
    <2>2. CASE Calls(replay \o <<f>>)
      <3>1. Stilled(replay)
        BY <1>1, StillReplay DEF AuxInv
      <3>2. Unlocked(aux, n)
        BY <1>1, <1>3 DEF OnResume, At, Top, PauseInv, Free
      <3>3. Unlocked(aux', n)
        BY <1>1, <3>2 DEF Unlocked, NoNewLock
      <3>4. Free(aux', f) /\ Waits(aux', f) /\ ~Pauses(f)
        BY <3>3 DEF Frame, Free, Waits, Pauses
      <3> HIDE DEF f, replay
      <3>5. PICK F : replay \in Seq(F) /\ \A e \in F : Still(e)
        BY <3>1 DEF Stilled
      <3> DEFINE G == F \cup {f}
                 s == <<f>>
                 t == replay \o s
      <3>6. replay \in Seq(G) /\ s \in Seq(G) /\ Len(s) = 1 /\ s[1] = f
        BY <3>5
      <3> HIDE DEF G, s
      <3>7. /\ t \in Seq(G) /\ Len(t) = Len(replay) + 1 /\ Len(replay) \in Nat
            /\ \A k \in 1..Len(replay) : t[k] = replay[k]
            /\ t[Len(replay) + 1] = f
        BY <3>6, CatIndex
      <3>8. ASSUME NEW k \in 1..Len(t) PROVE Free(aux', t[k]) /\ Waits(aux', t[k]) /\ ~Pauses(t[k])
        <4>1. CASE k \in 1..Len(replay)
          <5>1. Still(t[k])
            BY <3>5, <3>7, <4>1
          <5> QED BY <5>1, StillWaits
        <4>2. CASE k = Len(replay) + 1
          BY <3>4, <3>7, <4>2
        <4> QED BY <3>7, <3>8, <4>1, <4>2
      <3>9. Calls(t)
        BY <2>2 DEF s
      <3> HIDE DEF t
      <3>10. 1 \in 1..Len(t) /\ \A k \in 2..Len(t) : k \in 1..Len(t)
        BY <3>7
      <3> QED BY <1>1, <3>7, <3>8, <3>9, <3>10, PauseCalls
    <2> QED BY <1>3, <2>1, <2>2 DEF OnResume
  <1>4. CASE ResumeSkipped
    <2>1. CASE Calls(<<>>)
      BY <1>1, <2>1, NoCallPause
    <2>2. CASE Calls(<<Frame("try_run", Top.n)>>)
      <3>1. Unlocked(aux, Top.n)
        BY <1>1, <1>4 DEF ResumeSkipped, At, Top, PauseInv, Free
      <3>2. ~Quieted(aux', Top.n)
        BY <1>1, <3>1 DEF Unlocked, NoNewLock, Quieted
      <3>3. Free(aux', Frame("try_run", Top.n)) /\ ~Pauses(Frame("try_run", Top.n))
        BY <3>2 DEF Frame, Free, Pauses
      <3> QED BY <1>1, <2>2, <3>3, FirstPause
    <2> QED BY <1>4, <2>1, <2>2 DEF ResumeSkipped, When
  <1> QED BY <1>2, <1>3, <1>4

(* The handlers that serve a pull.                                         *)
LEMMA PullPause ==
  ASSUME StackInv, AuxInv, PauseInv, NoNewLock, FireDemand \/ FirePull
  PROVE  PauseInv'
  <1>1. Top.n \in Node /\ stack # <<>>
    BY TopNode DEF FireDemand, FirePull
  <1>2. CASE FireDemand
    <2> DEFINE n == Top.n
               f == Frame("fire_pull", n)
               g == Frame("pull_end", n)
    <2>1. CASE Calls(<<>>)
      BY <1>1, <2>1, NoCallPause
    <2>2. CASE Calls(<<f, g>>) /\ CanFireDemand(n) /\ aux' = [aux EXCEPT ![n].demand = FALSE, ![n].pulling = TRUE]
      <3>1. aux'[n].locks = {} /\ aux'[n].pulling
        BY <1>1, <2>2 DEF CanFireDemand, PauseInv, LockShape
      <3>2. Free(aux', f) /\ ~Pauses(f) /\ Still(g)
        BY <3>1 DEF Frame, Free, Pauses, Still, Wakes
      <3> HIDE DEF f, g
      <3> QED BY <1>1, <2>2, <3>2, FirstPause
    <2> QED BY <1>2, <2>1, <2>2 DEF FireDemand, When
  <1>3. CASE FirePull
    <2> DEFINE n == Top.n
               buffer == aux[n].buffer
               replay == IF Config[n].mode = "true" THEN <<Last(buffer)>> ELSE buffer
    <2>1. CASE Calls([k \in 1..Len(replay) |-> Call("down", n, replay[k])])
      <3>1. IsSeq(replay)
        <4>1. <<Last(buffer)>> \in Seq({Last(buffer)})
          OBVIOUS
        <4> QED BY <1>1, <4>1 DEF IsSeq, AuxInv
      <3>2. Stilled([k \in 1..Len(replay) |-> Call("down", n, replay[k])])
        <4> HIDE DEF replay
        <4> QED BY <3>1, StillReplay
      <3> HIDE DEF replay
      <3> QED BY <1>1, <2>1, <3>2, QuietBy, CalmingPause
    <2>2. CASE Calls(<<>>)
      BY <1>1, <2>2, NoCallPause
    <2>3. CASE Calls(<<Frame("try_run", n)>>)
      <3>1. aux[n].locks = {} /\ aux[n].pulling
        BY <1>1, <1>3 DEF FirePull, At, Top, PauseInv, Free
      <3>2. aux'[n].pulling = aux[n].pulling
        BY <1>1, <1>3 DEF FirePull, PauseInv, LockShape
      <3>3. ~Quieted(aux', n)
        BY <1>1, <3>1, <3>2 DEF NoNewLock, Quieted
      <3>4. Free(aux', Frame("try_run", n)) /\ ~Pauses(Frame("try_run", n))
        BY <3>3 DEF Frame, Free, Pauses
      <3> QED BY <1>1, <2>3, <3>4, FirstPause
    <2> QED BY <1>3, <2>1, <2>2, <2>3 DEF FirePull, When
  <1> QED BY <1>2, <1>3

(* A panic leaves calls that were waiting, under the recovery.             *)
LEMMA PanicPause ==
  ASSUME StackInv, PauseInv, NoNewLock, Panic
  PROVE  PauseInv'
  <1>1. PICK catch \in 1..Len(stack) :
          stack' = When(stack[catch].op = "owner_end",
                        Recovery(IF scope.blamed # NoNode THEN scope.blamed ELSE stack[catch].n))
                   \o SubSeq(stack, catch + 1, Len(stack))
    BY DEF Panic
  <1> DEFINE blamed == IF scope.blamed # NoNode THEN scope.blamed ELSE stack[catch].n
             R == When(stack[catch].op = "owner_end", Recovery(blamed))
             t == SubSeq(stack, catch + 1, Len(stack))
  <1>2. Stilled(R)
    <2> HIDE DEF blamed
    <2>1. Still(Call("down", blamed, <<Msg("ERROR")>>)) /\ Still(Frame("recovered", blamed))
      BY StillFrames DEF Wakes
    <2>2. Stilled(Recovery(blamed))
      BY <2>1, StillTwo DEF Recovery
    <2> QED BY <2>2, StillWhen
  <1>3. stack' = R \o t
    BY <1>1
  <1>4. PICK S : stack \in Seq(S) /\ \A f \in S : FrameOK(f)
    BY DEF StackInv, Good
  <1>5. t \in Seq(S) /\ Len(t) = Len(stack) - catch /\ \A j \in 1..Len(t) : t[j] = stack[catch + j]
    BY <1>4
  <1> HIDE DEF R, t
  <1>6. ASSUME NEW j \in 1..Len(t) PROVE Waits(aux', t[j]) /\ Free(aux', t[j]) /\ ~Pauses(t[j])
    <2>1. catch + j \in 2..Len(stack) /\ t[j] = stack[catch + j] /\ t[j] \in S
      BY <1>4, <1>5
    <2> DEFINE f == t[j]
    <2>2. Waits(aux, f) /\ FrameOK(f)
      BY <1>4, <2>1 DEF PauseInv
    <2> HIDE DEF f
    <2>3. f.op \in {"on_resume", "resume_skipped"} => Unlocked(aux', f.n)
      BY <2>2 DEF FrameOK, Waits, Unlocked, NoNewLock
    <2>4. Waits(aux', f) /\ Free(aux', f) /\ ~Pauses(f)
      BY <2>2, <2>3 DEF Waits, Free
    <2> QED BY <2>4 DEF f
  <1>7. PICK F : R \in Seq(F) /\ \A f \in F : Still(f)
    BY <1>2 DEF Stilled
  <1> DEFINE V == F \cup S
  <1>8. R \in Seq(V) /\ t \in Seq(V)
    BY <1>5, <1>7
  <1> HIDE DEF V
  <1>9. /\ stack' \in Seq(V) /\ Len(stack') = Len(R) + Len(t) /\ Len(R) \in Nat /\ Len(t) \in Nat
        /\ \A j \in 1..Len(R) : stack'[j] = R[j]
        /\ \A j \in 1..Len(t) : stack'[Len(R) + j] = t[j]
    BY <1>3, <1>8, CatIndex
  <1>10. ASSUME NEW k \in 1..Len(stack')
         PROVE  Waits(aux', stack'[k]) /\ Free(aux', stack'[k]) /\ ~Pauses(stack'[k])
    <2>1. CASE k \in 1..Len(R)
      <3>1. Still(stack'[k])
        BY <1>7, <1>9, <2>1
      <3> QED BY <3>1, StillWaits
    <2>2. CASE k \notin 1..Len(R)
      <3> DEFINE j == k - Len(R)
      <3>1. j \in 1..Len(t) /\ Len(R) + j = k
        BY <1>9, <1>10, <2>2
      <3>2. stack'[k] = t[j]
        BY <1>9, <3>1
      <3> QED BY <1>6, <3>1, <3>2
    <2> QED BY <2>1, <2>2
  <1>11. /\ \A k \in 2..Len(stack') : k \in 1..Len(stack')
         /\ stack' # <<>> => 1 \in 1..Len(stack')
    BY <1>9
  <1> QED BY <1>10, <1>11 DEF PauseInv, PauseAlone, NoNewLock

(* A PAUSE leaves the end of its own call.                                 *)
LEMMA UpPausePause ==
  ASSUME StackInv, PauseInv, UpPause
  PROVE  PauseInv'
  <1>1. stack # <<>> /\ Pauses(stack[1]) /\ stack' = <<>> \o Tail(stack)
    BY DEF UpPause, AtUp, At, Top, Pauses, Calls
  <1>2. \A k \in 2..Len(stack) : stack[k].op = "owner_end"
    BY <1>1 DEF PauseInv, PauseAlone
  <1>3. PICK S : stack \in Seq(S)
    BY DEF StackInv, Good
  <1>4. /\ stack' = Tail(stack) /\ Len(stack') = Len(stack) - 1 /\ stack' \in Seq(S)
        /\ \A k \in 1..Len(stack') : stack'[k] = stack[k + 1] /\ k + 1 \in 2..Len(stack)
    BY <1>1, <1>3
  <1>5. \A k \in 1..Len(stack') : stack'[k].op = "owner_end"
    BY <1>2, <1>4
  <1>6. \A k \in 1..Len(stack') : Still(stack'[k])
    BY <1>5 DEF Still, Wakes, Pauses
  <1>7. LockShape'
    BY DEF UpPause, PauseInv, LockShape
  <1>8. /\ \A k \in 2..Len(stack') : k \in 1..Len(stack')
        /\ stack' # <<>> => 1 \in 1..Len(stack')
    BY <1>4
  <1> QED BY <1>6, <1>7, <1>8, StillWaits DEF PauseInv, PauseAlone

(* All other handlers make calls that run nothing.                         *)
LEMMA StepCalming ==
  ASSUME Inv, Step
  PROVE  \/ Calming \/ MaybeRun \/ TryRun \/ Produce \/ UpPause \/ UpResume \/ OnResume
         \/ ResumeSkipped \/ FireDemand \/ FirePull \/ Panic
  BY DownQuiet, DeliveryQuiet, MsgQuiet, ReceiveQuiet, RunQuiet, UpQuiet, SubscribeQuiet, OwnerQuiet
     DEF Step, Inv

(* Every step of the engine.                                               *)
LEMMA StepPause ==
  ASSUME Inv, PauseInv, Step
  PROVE  PauseInv'
  <1>1. CASE UpPause
    BY <1>1, UpPausePause DEF Inv
  <1>2. CASE NoNewLock
    BY <1>1, <1>2, StepCalming, CalmingPause, DecidePause, ResumePause, PullPause, PanicPause DEF Inv
  <1> QED BY <1>1, <1>2, StepLocks DEF PauseInv

(* A call from outside that runs nothing at once.                          *)
LEMMA CallPause ==
  ASSUME PauseInv, UNCHANGED aux, Stilled(stack')
  PROVE  PauseInv'
  <1>1. PICK S : stack' \in Seq(S) /\ \A f \in S : Still(f)
    BY DEF Stilled
  <1>2. \A k \in 1..Len(stack') : Still(stack'[k])
    BY <1>1
  <1>3. /\ \A k \in 2..Len(stack') : k \in 1..Len(stack')
        /\ stack' # <<>> => 1 \in 1..Len(stack')
    BY <1>1
  <1> QED BY <1>2, <1>3, StillWaits DEF PauseInv, PauseAlone, LockShape

(* A call under a wave owner.                                              *)
LEMMA OwnedPause ==
  ASSUME PauseInv, UNCHANGED aux, NEW n, NEW f, f.op \notin Wakes, OwnedCall(n, f)
  PROVE  PauseInv'
  <1> DEFINE b == Frame("owner_end", n)
  <1>1. b.op = "owner_end" /\ Still(b)
    BY DEF Frame, Still, Wakes, Pauses
  <1>2. stack' = <<f, b>>
    BY DEF OwnedCall
  <1> HIDE DEF b
  <1>3. Len(stack') = 2 /\ stack'[1] = f /\ stack'[2] = b
    BY <1>2
  <1>4. \A k \in 2..Len(stack') : k = 2
    BY <1>3
  <1>5. Waits(aux', b)
    BY <1>1, StillWaits
  <1>6. Free(aux', f)
    BY DEF Free, Wakes
  <1>7. LockShape'
    BY DEF PauseInv, LockShape
  <1> QED BY <1>1, <1>3, <1>4, <1>5, <1>6, <1>7 DEF PauseInv, PauseAlone

(* The user's calls.                                                       *)
LEMMA UserPause ==
  ASSUME Inv, PauseInv, User
  PROVE  PauseInv'
  <1>1. CASE \E d \in Does.downs : UserDown(d[1], d[2])
    <2>1. PICK d \in Does.downs : UserDown(d[1], d[2])
      BY <1>1
    <2>2. Call("down", d[1], d[2]).op \notin Wakes
      BY DEF Call, Frame, Wakes
    <2> QED BY <2>1, <2>2, OwnedPause DEF UserDown
  <1>2. CASE \E u \in Does.ups : UserUp(u[1], u[2])
    <2>1. PICK u \in Does.ups : UserUp(u[1], u[2])
      BY <1>2
    <2>2. Call("up", u[1], <<u[2]>>).op \notin Wakes
      BY DEF Call, Frame, Wakes
    <2> QED BY <2>1, <2>2, OwnedPause DEF UserUp
  <1>3. CASE \E n \in Does.observed : UserSubscribe(n)
    <2>1. PICK n \in Does.observed : UserSubscribe(n)
      BY <1>3
    <2> DEFINE a == OfSubscriber("subscribe", n, Ext, 1)
               b == Frame("owner_end", n)
               c == Frame("subscribed", n)
    <2>2. Still(a) /\ Still(b) /\ Still(c)
      BY StillFrames DEF Wakes
    <2>3. stack' = <<a, b, c>> /\ UNCHANGED aux
      BY <2>1 DEF UserSubscribe
    <2> HIDE DEF a, b, c
    <2> QED BY <2>2, <2>3, StillThree, CallPause
  <1>4. CASE \E n \in Does.observed : UserUnsubscribe(n)
    <2>1. PICK n \in Does.observed : UserUnsubscribe(n)
      BY <1>4
    <2>2. Stilled(<<OfSubscriber("unsubscribe", n, Ext, 1)>>)
      BY StillFrames DEF Wakes
    <2> QED BY <2>1, <2>2, CallPause DEF UserUnsubscribe
  <1>5. CASE \E n \in Node : LateEmit(n)
    <2>1. PICK n \in Node : LateEmit(n)
      BY <1>5
    <2>2. PICK k : OwnedCall(n, Call("down", n, <<Data(inflight[n][k])>>))
      BY <2>1 DEF LateEmit
    <2>3. Call("down", n, <<Data(inflight[n][k])>>).op \notin Wakes
      BY DEF Call, Frame, Wakes
    <2> QED BY <2>1, <2>2, <2>3, OwnedPause DEF LateEmit
  <1>6. CASE OpenBatch
    <2>1. stack' = <<>> /\ UNCHANGED aux
      BY <1>6 DEF OpenBatch, UserCall, Idle
    <2>2. Stilled(stack')
      BY <2>1, StillEmpty
    <2> QED BY <2>1, <2>2, CallPause
  <1>7. CASE Commit \/ Rollback
    <2>1. PICK op \in {"commit", "rollback"} : FinishBatch(op)
      BY <1>7 DEF Commit, Rollback
    <2> DEFINE d == batch.targets
               k == Len(d)
               g == [j \in 1..k |-> Call(op, d[j], batch.waves[d[j]])]
    <2>2. k \in Nat
      BY DEF Inv, BatchInv
    <2>3. \A j \in 1..k : Still(g[j])
      BY StillFrames DEF Wakes
    <2>4. DOMAIN g = 1..k /\ g = [j \in 1..k |-> g[j]]
      OBVIOUS
    <2>5. stack' = g \o <<Frame("close_batch", NoNode)>> /\ UNCHANGED aux
      BY <2>1 DEF FinishBatch
    <2> HIDE DEF k, g
    <2>6. Stilled(g) /\ Stilled(<<Frame("close_batch", NoNode)>>)
      BY <2>2, <2>3, <2>4, StillList, StillFrames DEF Wakes
    <2>7. Stilled(stack')
      BY <2>5, <2>6, StillCat
    <2> QED BY <2>5, <2>7, CallPause
  <1> QED BY <1>1, <1>2, <1>3, <1>4, <1>5, <1>6, <1>7 DEF User

(* A computed node in the default pause mode never runs its fn while it    *)
(* holds a pause lock or is a pull node that serves no demand, on every    *)
(* graph and for every program: each of the ways to a run (the last        *)
(* dependency, a deferred run, RESUME, a pull demand) has seen that        *)
(* nothing holds the node back, and no PAUSE comes in between.             *)
THEOREM PauseAlwaysHolds == Spec => []PauseHolds
  <1>1. Init => PauseInv
    <2> SUFFICES ASSUME Init PROVE PauseInv
      OBVIOUS
    <2>1. stack = <<>> /\ LockShape
      BY DEF Init, LockShape
    <2>2. \A k \in 2..Len(stack) : FALSE
      BY <2>1
    <2> QED BY <2>1, <2>2 DEF PauseInv
  <1>2. Inv /\ PauseInv /\ [Next]_vars => PauseInv'
    <2> SUFFICES ASSUME Inv, PauseInv, [Next]_vars PROVE PauseInv'
      OBVIOUS
    <2>1. CASE UNCHANGED vars
      BY <2>1 DEF vars, PauseInv, PauseAlone, LockShape
    <2> QED BY <2>1, StepPause, UserPause DEF Next
  <1>3. PauseInv => PauseHolds
    BY DEF PauseInv, Free, PauseHolds, At, Top, Quieted, Paused, PullQuiet
  <1> QED BY InvHolds, <1>1, <1>2, <1>3, PTL DEF Spec

=============================================================================
