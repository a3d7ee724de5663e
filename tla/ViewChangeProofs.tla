-------------------------- MODULE ViewChangeProofs --------------------------
(***************************************************************************)
(* Proofs about ViewChange for every number of tolerated faults and every  *)
(* bound on views, numbers and restarts: no node is in a view that a       *)
(* quorum has not asked for.                                               *)
(***************************************************************************)
EXTENDS ViewChange, FiniteSetTheorems, TLAPS

-----------------------------------------------------------------------------
(* Support never goes away *)

\* The nodes that have asked for a view are finitely many nodes.
LEMMA AskersAreFinite ==
    ASSUME NEW v
    PROVE  Askers(v) \subseteq Sites /\ IsFiniteSet(Askers(v))
                /\ Cardinality(Askers(v)) \in Nat
<1>1. Askers(v) \subseteq Sites
  BY DEF Askers, Peers
<1> QED
  BY <1>1, FS_Subset, FS_CardinalityType, ViewChangeAssumption

\* Nobody takes a VIEW-CHANGE back.
LEMMA AskersGrow ==
    ASSUME asked \subseteq asked', NEW v
    PROVE  Askers(v) \subseteq Askers(v)'
BY DEF Askers, Peers, get_leader

LEMMA SupportStays ==
    ASSUME asked \subseteq asked'
    PROVE  /\ \A v : Supported(v) => Supported(v)'
           /\ \A v : SupportedUpTo(v) => SupportedUpTo(v)'
<1>1. ASSUME NEW v, Supported(v)
      PROVE  Supported(v)'
  <2>1. IsFiniteSet(Askers(v)') /\ Cardinality(Askers(v)') \in Nat
    <3>1. Askers(v)' \subseteq Sites
      BY DEF Askers, Peers
    <3> QED
      BY <3>1, FS_Subset, FS_CardinalityType, ViewChangeAssumption
  <2>2. Cardinality(Askers(v)) <= Cardinality(Askers(v)')
    BY <2>1, AskersGrow, FS_Subset
  <2>3. Cardinality(Askers(v)) \in Nat /\ Quorum \in Nat
    BY AskersAreFinite, ViewChangeAssumption DEF Quorum
  <2> QED
    BY <1>1, <2>1, <2>2, <2>3 DEF Supported
<1> QED
  BY <1>1 DEF SupportedUpTo

\* A view that is asked for follows one that is supported, so its own support
\* completes that of all views up to it.
LEMMA SupportExtends ==
    ASSUME NEW v \in Views, Supported(v), AskedAreSupported,
           asked \subseteq [view: Views, sender: Sites]
    PROVE  SupportedUpTo(v)
<1>1. PICK j \in Askers(v) : TRUE
  <2>1. Cardinality(Askers(v)) # 0
    BY ViewChangeAssumption DEF Supported, Quorum
  <2> QED
    BY <2>1, AskersAreFinite, FS_EmptySet
<1>2. SupportedUpTo(v - 1)
  BY <1>1 DEF AskedAreSupported, Askers
<1> QED
  BY <1>2 DEF SupportedUpTo, Views

\* A quorum of votes counted for a view supports it.
LEMMA VotesSupport ==
    ASSUME NEW v, NEW S, S \subseteq Askers(v), Cardinality(S) >= Quorum
    PROVE  Supported(v)
<1>1. Cardinality(S) <= Cardinality(Askers(v)) /\ Cardinality(S) \in Nat
  BY AskersAreFinite, FS_Subset, FS_CardinalityType
<1>2. Quorum \in Nat /\ Cardinality(Askers(v)) \in Nat
  BY AskersAreFinite, ViewChangeAssumption DEF Quorum
<1> QED
  BY <1>1, <1>2 DEF Supported

-----------------------------------------------------------------------------
(* What a step may do: the types stay, whoever asks or moves has support, and *)
(* the new messages and votes are those of nodes that have asked.            *)

Advance ==
    /\ ViewTypes'
    /\ asked \subseteq asked'
    /\ \A a \in asked' \ asked : SupportedUpTo(a.view - 1)
    /\ \A m \in net' \ net :
          /\ m.type = "VIEW_CHANGE" => m.view \in Views /\ m.sender \in Askers(m.view)'
          /\ m.type = "NEW_VIEW" => m.view \in Views /\ m.V \subseteq Askers(m.view)
    /\ \A i \in Sites : \A c \in collected'[i] \ collected[i] : c.sender \in Askers(c.view)
    /\ \A i \in Sites : /\ SupportedUpTo(view'[i])
                        /\ SupportedUpTo(initiating'[i].view - 1)

LEMMA AdvanceKeeps == SupportInv /\ Advance => SupportInv'
<1> SUFFICES ASSUME SupportInv, Advance
             PROVE  SupportInv'
  OBVIOUS
<1> USE DEF SupportInv, Advance
<1>1. \A v : Askers(v) \subseteq Askers(v)'
  BY AskersGrow
<1>2. \A v : SupportedUpTo(v) => SupportedUpTo(v)'
  BY SupportStays
<1>3. MessagesAreAsked'
  BY <1>1 DEF MessagesAreAsked
<1>4. CollectedAreAsked'
  BY <1>1 DEF CollectedAreAsked
<1>5. ViewsAreSupported'
  BY <1>2 DEF ViewsAreSupported
<1>6. AskedAreSupported'
  BY <1>2 DEF AskedAreSupported
<1> QED
  BY <1>3, <1>4, <1>5, <1>6

-----------------------------------------------------------------------------
(* Steps that ask for nothing *)

AsksNothing ==
    /\ UNCHANGED <<view, initiating, collected, asked>>
    /\ \A m \in net' \ net : m.type \notin {"VIEW_CHANGE", "NEW_VIEW"}

LEMMA AsksNothingAdvances == SupportInv /\ AsksNothing => Advance
BY DEF SupportInv, AsksNothing, Advance, ViewTypes, ViewsAreSupported

\* Proposing and voting is silent about views.
LEMMA VotingAsksNothing ==
    ASSUME NEW i \in Sites,
           \/ \E q \in Requests : HandleClientRequest(i, q)
           \/ \E m \in net : HandlePrePrepare(i, m) \/ HandlePrepare(i, m) \/ HandleCommit(i, m)
    PROVE  AsksNothing
<1>1. ASSUME NEW type \in {"PRE_PREPARE", "PREPARE", "COMMIT"}, NEW v, NEW s, NEW tx
      PROVE  \A m \in Broadcast(type, i, v, s, tx) : m.type \notin {"VIEW_CHANGE", "NEW_VIEW"}
  BY <1>1 DEF Broadcast
<1>2. ASSUME NEW v, NEW O
      PROVE  \A m \in ProposalMessages(i, v, O) : m.type \notin {"VIEW_CHANGE", "NEW_VIEW"}
  BY <1>1 DEF ProposalMessages
<1>3. ASSUME NEW q \in Requests, HandleClientRequest(i, q)
      PROVE  AsksNothing
  BY <1>2, <1>3 DEF HandleClientRequest, AsksNothing, viewVars
<1>4. ASSUME NEW m \in net, HandlePrePrepare(i, m)
      PROVE  AsksNothing
  BY <1>1, <1>4 DEF HandlePrePrepare, AsksNothing, viewVars
<1>5. ASSUME NEW m, NEW after, Count(i, m, after, {})
      PROVE  AsksNothing
  BY <1>5 DEF Count, AsksNothing, viewVars
<1>6. ASSUME NEW m, NEW after,
             Count(i, m, after, Broadcast("COMMIT", i, view[i], m.seq, m.tx))
      PROVE  AsksNothing
  <2>1. /\ net' = (net \ {m}) \cup Broadcast("COMMIT", i, view[i], m.seq, m.tx)
        /\ UNCHANGED viewVars
    BY <1>6 DEF Count
  <2> QED
    BY <1>1, <2>1 DEF AsksNothing, viewVars
<1> QED
  BY <1>3, <1>4, <1>5, <1>6 DEF HandlePrepare, HandleCommit

-----------------------------------------------------------------------------
(* Asking for a view *)

\* Node i asks for view v: it has the support of all views before.
LEMMA SendViewChangeAdvances ==
    ASSUME SupportInv, NEW i \in Sites, NEW v \in Views, SupportedUpTo(v - 1),
           SendViewChange(i, v), UNCHANGED <<view, collected>>,
           \/ UNCHANGED initiating
           \/ initiating' = [initiating EXCEPT ![i] = Idle]
    PROVE  Advance
<1> DEFINE a == [view |-> v, sender |-> i]
<1>1. asked' = asked \cup {a} /\ a \in [view: Views, sender: Sites]
  BY DEF SendViewChange
<1>2. SupportedUpTo(0 - 1)
  BY DEF SupportedUpTo
<1>3. Idle \in [phase: {"idle", "read", "set"}, view: Views]
  BY ViewChangeAssumption DEF Idle, Views
<1>4. ViewTypes'
  BY <1>1, <1>3 DEF SupportInv, ViewTypes
<1>5. \A j \in Sites : SupportedUpTo(view'[j]) /\ SupportedUpTo(initiating'[j].view - 1)
  BY <1>2 DEF SupportInv, ViewTypes, ViewsAreSupported, Idle
<1>6. ASSUME NEW m \in net' \ net
      PROVE  /\ m.type = "VIEW_CHANGE"
             /\ m.view \in Views
             /\ m.sender \in Askers(m.view)'
  <2>1. PICK d \in {get_leader(v)} \ {i} :
             m = [type |-> "VIEW_CHANGE", sender |-> i, dst |-> d, view |-> v,
                  certs |-> PreparedCerts(i)]
    BY <1>6 DEF SendViewChange
  <2>2. i \in Peers(get_leader(v))
    BY <2>1 DEF Peers
  <2>3. i \in Askers(v)'
    BY <1>1, <2>2 DEF Askers, Peers, get_leader
  <2> QED
    BY <2>1, <2>3
<1> QED
  BY <1>1, <1>4, <1>5, <1>6 DEF Advance

LEMMA AskingAdvances ==
    ASSUME SupportInv, NEW i \in Sites,
           \/ CheckViewTimeout(i) \/ SetViewChangeSent(i) \/ BroadcastViewChange(i)
           \/ \E m \in net : HandleEquivocation(i, m)
    PROVE  Advance
<1> USE DEF SupportInv
<1>1. view[i] \in 0 .. MaxView /\ MaxView \in Nat
  BY ViewChangeAssumption DEF ViewTypes, Views
<1>2. ASSUME CheckViewTimeout(i)
      PROVE  Advance
  <2> DEFINE reads == [phase |-> "read", view |-> view[i] + 1]
  <2>1. initiating' = [initiating EXCEPT ![i] = reads] /\ view[i] < MaxView
        /\ UNCHANGED <<net, view, collected, asked>>
    BY <1>2 DEF CheckViewTimeout
  <2>2. reads \in [phase: {"idle", "read", "set"}, view: Views]
    BY <1>1, <2>1 DEF Views
  <2>3. ViewTypes'
    BY <2>1, <2>2 DEF ViewTypes
  <2>4. reads.view - 1 = view[i]
    BY <1>1
  <2>5. \A j \in Sites : SupportedUpTo(view'[j]) /\ SupportedUpTo(initiating'[j].view - 1)
    BY <2>1, <2>4 DEF ViewTypes, ViewsAreSupported
  <2> QED
    BY <2>1, <2>3, <2>5 DEF Advance
<1>3. ASSUME SetViewChangeSent(i)
      PROVE  Advance
  <2>1. initiating' = [initiating EXCEPT ![i].phase = "set"]
        /\ UNCHANGED <<net, view, collected, asked>>
    BY <1>3 DEF SetViewChangeSent
  <2>2. /\ initiating' \in [Sites -> [phase: {"idle", "read", "set"}, view: Views]]
        /\ \A j \in Sites : initiating'[j].view = initiating[j].view
    BY <2>1 DEF ViewTypes
  <2>3. ViewTypes'
    BY <2>1, <2>2 DEF ViewTypes
  <2>4. \A j \in Sites : SupportedUpTo(view'[j]) /\ SupportedUpTo(initiating'[j].view - 1)
    BY <2>1, <2>2 DEF ViewsAreSupported
  <2> QED
    BY <2>1, <2>3, <2>4 DEF Advance
<1>4. ASSUME BroadcastViewChange(i)
      PROVE  Advance
  <2>1. initiating[i].view \in Views /\ SupportedUpTo(initiating[i].view - 1)
    BY DEF ViewTypes, ViewsAreSupported
  <2> QED
    BY <1>4, <2>1, SendViewChangeAdvances DEF BroadcastViewChange
<1>5. ASSUME NEW m \in net, HandleEquivocation(i, m)
      PROVE  Advance
  <2>1. view[i] < MaxView /\ SendViewChange(i, view[i] + 1)
        /\ UNCHANGED <<view, initiating, collected>>
    BY <1>5 DEF HandleEquivocation
  <2>2. view[i] + 1 \in Views /\ (view[i] + 1) - 1 = view[i]
    BY <1>1, <2>1 DEF Views
  <2>3. SupportedUpTo((view[i] + 1) - 1)
    BY <2>2 DEF ViewsAreSupported
  <2> QED
    BY <2>1, <2>2, <2>3, SendViewChangeAdvances
<1> QED
  BY <1>2, <1>3, <1>4, <1>5

-----------------------------------------------------------------------------
(* Entering a view *)

\* Node i, which nothing keeps from it, enters a supported view.
LEMMA EnterViewTypes ==
    ASSUME SupportInv, NEW i \in Sites, NEW v \in Views, SupportedUpTo(v),
           EnterView(i, v), UNCHANGED <<initiating, asked>>
    PROVE  /\ ViewTypes'
           /\ \A j \in Sites : SupportedUpTo(view'[j]) /\ SupportedUpTo(initiating'[j].view - 1)
           /\ \A j \in Sites : collected'[j] \subseteq collected[j]
<1> USE DEF SupportInv, EnterView
<1>1. ViewTypes'
  BY DEF ViewTypes
<1>2. \A j \in Sites : SupportedUpTo(view'[j]) /\ SupportedUpTo(initiating'[j].view - 1)
  BY DEF ViewTypes, ViewsAreSupported
<1>3. \A j \in Sites : collected'[j] \subseteq collected[j]
  BY DEF ViewTypes
<1> QED
  BY <1>1, <1>2, <1>3

\* Counting a VIEW-CHANGE: the votes are those of nodes that have asked.
LEMMA VotesAreAsked ==
    ASSUME SupportInv, NEW i \in Sites, NEW m \in net, m.type = "VIEW_CHANGE"
    PROVE  /\ m.view \in Views
           /\ \A c \in VotesWith(i, m) : c.view = m.view /\ c.sender \in Askers(m.view)
           /\ Senders(VotesWith(i, m)) \subseteq Askers(m.view)
<1>1. m.view \in Views /\ m.sender \in Askers(m.view)
  BY DEF SupportInv, MessagesAreAsked
<1>2. \A c \in VotesWith(i, m) : c.view = m.view /\ c.sender \in Askers(m.view)
  BY <1>1 DEF VotesWith, SupportInv, CollectedAreAsked
<1> QED
  BY <1>1, <1>2 DEF Senders

LEMMA HandleViewChangeAdvances ==
    ASSUME SupportInv, NEW i \in Sites, NEW m \in net, HandleViewChange(i, m)
    PROVE  Advance
<1> DEFINE votes == VotesWith(i, m)
<1>1. m.type = "VIEW_CHANGE"
  BY DEF HandleViewChange
<1>2. /\ m.view \in Views
      /\ \A c \in votes : c.view = m.view /\ c.sender \in Askers(m.view)
      /\ Senders(votes) \subseteq Askers(m.view)
  BY <1>1, VotesAreAsked
<1>3. CASE EnoughVotes(votes)
  <2>1. SupportedUpTo(m.view)
    <3>1. Supported(m.view)
      BY <1>2, <1>3, VotesSupport DEF EnoughVotes
    <3> QED
      BY <1>2, <3>1, SupportExtends DEF SupportInv, ViewTypes
  <2>2. PICK O \in Choices(UNION {c.certs : c \in votes}) :
          LET first == FirstProposals(i, O) IN
          /\ EnterView(i, m.view)
          /\ net' = (net \ {m})
               \cup {[type |-> "NEW_VIEW", sender |-> i, dst |-> d, view |-> m.view,
                      V |-> Senders(votes), O |-> O] : d \in Peers(i)}
               \cup ProposalMessages(i, m.view, first)
          /\ UNCHANGED <<initiating, asked>>
    BY <1>3 DEF HandleViewChange, SendNewView
  <2> DEFINE first == FirstProposals(i, O)
  <2>3. /\ ViewTypes'
        /\ \A j \in Sites : SupportedUpTo(view'[j]) /\ SupportedUpTo(initiating'[j].view - 1)
        /\ \A j \in Sites : collected'[j] \subseteq collected[j]
    BY <1>2, <2>1, <2>2, EnterViewTypes
  <2>4. \A n \in ProposalMessages(i, m.view, first) : n.type \notin {"VIEW_CHANGE", "NEW_VIEW"}
    BY DEF ProposalMessages, Broadcast
  <2>5. ASSUME NEW n \in net' \ net
        PROVE  /\ n.type # "VIEW_CHANGE"
               /\ n.type = "NEW_VIEW" => n.view \in Views /\ n.V \subseteq Askers(n.view)
    <3>1. CASE n \in ProposalMessages(i, m.view, first)
      BY <2>4, <3>1
    <3>2. CASE n \notin ProposalMessages(i, m.view, first)
      <4>1. PICK d \in Peers(i) :
              n = [type |-> "NEW_VIEW", sender |-> i, dst |-> d, view |-> m.view,
                   V |-> Senders(votes), O |-> O]
        BY <2>2, <2>5, <3>2
      <4> QED
        BY <1>2, <4>1
    <3> QED
      BY <3>1, <3>2
  <2> QED
    BY <2>2, <2>3, <2>5 DEF Advance
<1>4. CASE ~EnoughVotes(votes)
  <2>1. /\ collected' = [collected EXCEPT ![i] = {c \in @ : c.view # m.view} \cup votes]
        /\ net' = net \ {m}
        /\ UNCHANGED <<view, initiating, asked>>
    BY <1>4 DEF HandleViewChange
  <2>2. ViewTypes'
    BY <2>1 DEF SupportInv, ViewTypes
  <2>3. \A j \in Sites : \A c \in collected'[j] \ collected[j] : c.sender \in Askers(c.view)
    BY <1>2, <2>1 DEF SupportInv, ViewTypes
  <2> QED
    BY <2>1, <2>2, <2>3 DEF SupportInv, ViewsAreSupported, Advance
<1> QED
  BY <1>3, <1>4

LEMMA HandleNewViewAdvances ==
    ASSUME SupportInv, NEW i \in Sites, NEW m \in net, HandleNewView(i, m)
    PROVE  Advance
<1>1. /\ m.type = "NEW_VIEW" /\ Cardinality(m.V) >= Quorum
      /\ EnterView(i, m.view)
      /\ net' = net \ {m}
      /\ UNCHANGED <<initiating, asked>>
  BY DEF HandleNewView
<1>2. m.view \in Views /\ m.V \subseteq Askers(m.view)
  BY <1>1 DEF SupportInv, MessagesAreAsked
<1>3. Supported(m.view)
  BY <1>1, <1>2, VotesSupport
<1>4. SupportedUpTo(m.view)
  BY <1>2, <1>3, SupportExtends DEF SupportInv, ViewTypes
<1>5. /\ ViewTypes'
      /\ \A j \in Sites : SupportedUpTo(view'[j]) /\ SupportedUpTo(initiating'[j].view - 1)
      /\ \A j \in Sites : collected'[j] \subseteq collected[j]
  BY <1>1, <1>2, <1>4, EnterViewTypes
<1> QED
  BY <1>1, <1>5 DEF Advance

\* What a node finds out from its peers is no later than the view of one.
LEMMA PeersAreSupported ==
    ASSUME SupportInv, NEW i \in Sites, NEW v \in UpToPeers(view, i)
    PROVE  v \in Views /\ SupportedUpTo(v)
<1>1. PICK j \in Sites : v \in view[i] .. view[j]
  BY DEF UpToPeers
<1>2. view[i] \in 0 .. MaxView /\ view[j] \in 0 .. MaxView /\ MaxView \in Nat
  BY ViewChangeAssumption DEF SupportInv, ViewTypes, Views
<1>3. v \in 0 .. MaxView /\ v <= view[j]
  BY <1>1, <1>2
<1>4. SupportedUpTo(view[j])
  BY DEF SupportInv, ViewsAreSupported
<1> QED
  BY <1>2, <1>3, <1>4 DEF Views, SupportedUpTo

LEMMA CatchUpAdvances ==
    ASSUME SupportInv, NEW i \in Sites, CatchUp(i)
    PROVE  Advance
<1>1. PICK v \in UpToPeers(view, i) : view' = [view EXCEPT ![i] = v]
  BY DEF CatchUp, Adopt
<1>2. UNCHANGED <<net, initiating, collected, asked>>
  BY DEF CatchUp
<1>3. v \in Views /\ SupportedUpTo(v)
  BY PeersAreSupported
<1>4. ViewTypes'
  BY <1>1, <1>2, <1>3 DEF SupportInv, ViewTypes
<1>5. \A j \in Sites : SupportedUpTo(view'[j]) /\ SupportedUpTo(initiating'[j].view - 1)
  BY <1>1, <1>2, <1>3 DEF SupportInv, ViewTypes, ViewsAreSupported
<1> QED
  BY <1>2, <1>4, <1>5 DEF Advance

LEMMA RestartAdvances ==
    ASSUME SupportInv, NEW i \in Sites, Restart(i)
    PROVE  Advance
<1>1. ASSUME NEW found, NEW v, NEW e, Resume(i, found, v, e)
      PROVE  /\ view' = [view EXCEPT ![i] = v]
             /\ \A m \in net' \ net : m.type \notin {"VIEW_CHANGE", "NEW_VIEW"}
  BY <1>1 DEF Resume, Adopt, Broadcast
<1>2. PICK v \in UpToPeers(view, i) : view' = [view EXCEPT ![i] = v]
  BY <1>1 DEF Restart
<1>3. \A m \in net' \ net : m.type \notin {"VIEW_CHANGE", "NEW_VIEW"}
  BY <1>1 DEF Restart
<1>4. /\ initiating' = [initiating EXCEPT ![i] = Idle]
      /\ collected' = [collected EXCEPT ![i] = {}]
      /\ UNCHANGED asked
  BY DEF Restart
<1>5. v \in Views /\ SupportedUpTo(v)
  BY PeersAreSupported
<1>6. Idle \in [phase: {"idle", "read", "set"}, view: Views] /\ SupportedUpTo(Idle.view - 1)
  BY ViewChangeAssumption DEF Idle, Views, SupportedUpTo
<1>7. ViewTypes'
  BY <1>2, <1>4, <1>5, <1>6 DEF SupportInv, ViewTypes
<1>8. \A j \in Sites : SupportedUpTo(view'[j]) /\ SupportedUpTo(initiating'[j].view - 1)
  BY <1>2, <1>4, <1>5, <1>6 DEF SupportInv, ViewTypes, ViewsAreSupported
<1>9. \A j \in Sites : collected'[j] \subseteq collected[j]
  BY <1>4 DEF SupportInv, ViewTypes
<1> QED
  BY <1>3, <1>4, <1>7, <1>8, <1>9 DEF Advance

-----------------------------------------------------------------------------
(* The theorems *)

LEMMA InitSupport == Init => SupportInv
<1> SUFFICES ASSUME Init
             PROVE  SupportInv
  OBVIOUS
<1> USE DEF Init
<1>1. 0 \in Views /\ Idle \in [phase: {"idle", "read", "set"}, view: Views]
  BY ViewChangeAssumption DEF Views, Idle
<1>2. SupportedUpTo(0) /\ SupportedUpTo(0 - 1)
  BY DEF SupportedUpTo
<1> QED
  BY <1>1, <1>2 DEF SupportInv, ViewTypes, MessagesAreAsked, CollectedAreAsked,
                    ViewsAreSupported, AskedAreSupported, Idle

LEMMA StepSupport == SupportInv /\ [Next]_vars => SupportInv'
<1> SUFFICES ASSUME SupportInv, [Next]_vars
             PROVE  Advance
  BY AdvanceKeeps
<1>1. CASE UNCHANGED vars
  BY <1>1, AsksNothingAdvances DEF vars, viewVars, AsksNothing
<1>2. ASSUME NEW i \in Sites, NEW q \in Requests, HandleClientRequest(i, q)
      PROVE  Advance
  BY <1>2, VotingAsksNothing, AsksNothingAdvances
<1>3. ASSUME NEW i \in Sites, NEW m \in net, Handle(i, m)
      PROVE  Advance
  <2>1. CASE HandlePrePrepare(i, m) \/ HandlePrepare(i, m) \/ HandleCommit(i, m)
    BY <2>1, VotingAsksNothing, AsksNothingAdvances
  <2>2. CASE HandleEquivocation(i, m)
    BY <2>2, AskingAdvances
  <2>3. CASE HandleViewChange(i, m)
    BY <2>3, HandleViewChangeAdvances
  <2>4. CASE HandleNewView(i, m)
    BY <2>4, HandleNewViewAdvances
  <2> QED
    BY <1>3, <2>1, <2>2, <2>3, <2>4 DEF Handle
<1>4. ASSUME NEW i \in Sites,
             CheckViewTimeout(i) \/ SetViewChangeSent(i) \/ BroadcastViewChange(i)
      PROVE  Advance
  BY <1>4, AskingAdvances
<1>5. ASSUME NEW i \in Sites, CatchUp(i)
      PROVE  Advance
  BY <1>5, CatchUpAdvances
<1>6. ASSUME NEW i \in Sites, Restart(i)
      PROVE  Advance
  BY <1>6, RestartAdvances
<1> QED
  BY <1>1, <1>2, <1>3, <1>4, <1>5, <1>6 DEF Next

\* The invariant: every view a node is in, asks for or is about to ask for has
\* the support of a quorum below it (check_view_timeout, handle_view_change,
\* handle_new_view, _sync_with_peers, start).
THEOREM SupportInvariance == Spec => []SupportInv
BY InitSupport, StepSupport, PTL DEF Spec

\* No node, whatever it restarts from, catches up with or times out on, is in a
\* view that a quorum without the leader of that view has not asked for.
THEOREM ViewIsSupportedHolds == Spec => []ViewIsSupported
<1>1. SupportInv => ViewIsSupported
  BY DEF SupportInv, ViewTypes, ViewsAreSupported, SupportedUpTo, ViewIsSupported, Views
<1> QED
  BY <1>1, SupportInvariance, PTL
=============================================================================
