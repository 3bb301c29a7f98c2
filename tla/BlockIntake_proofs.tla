------------------------- MODULE BlockIntake_proofs -------------------------
(***************************************************************************)
(* The synchronized checkpoint is on the best chain and only advances, no  *)
(* orphan, no pending checkpoint and no delivered block is forgotten, for  *)
(* every tree of blocks, every order of blocks, checkpoint messages,       *)
(* crashes and upgrades.                                                   *)
(***************************************************************************)
EXTENDS BlockIntake, BlockTree_proofs

-----------------------------------------------------------------------------
\* A block that CheckSync lets in descends from the checkpoint.
LEMMA CheckSyncDescends ==
    ASSUME hashSyncCheckpoint \in Block, NEW b \in Block \ {Genesis}, b \notin mapBlockIndex,
           CheckSync(b)
    PROVE  OnPath(hashSyncCheckpoint, b)
  <1>1. nHeight(b) \in Int /\ nHeight(hashSyncCheckpoint) \in Int
    BY HeightType
  <1>2. CASE nHeight(b) > nHeight(hashSyncCheckpoint)
    BY <1>2, AncestorsPrev DEF CheckSync, OnPath
  <1>3. CASE nHeight(b) = nHeight(hashSyncCheckpoint)
    BY <1>3, AncestorsType DEF CheckSync, OnPath
  <1>4. CASE nHeight(b) < nHeight(hashSyncCheckpoint)
    BY <1>4 DEF CheckSync
  <1> QED
    BY <1>1, <1>2, <1>3, <1>4

\* SetBestChain that returns true: memory names b, and the disk has its good blocks.
LEMMA SetBestChainEffect ==
    ASSUME NEW b \in Block, SetBestChain(b)
    PROVE  /\ hashBestChain' = b
           /\ dbBest' \in Ancestors[b]
           /\ \A d \in Ancestors[b] : Good(d) => OnPath(d, dbBest')
  <1>1. CASE SetBestChainOK(b)
    BY <1>1, AncestorsType DEF SetBestChainOK, OnPath
  <1>2. CASE SetBestChainSplits(b)
    BY <1>2 DEF SetBestChainSplits
  <1> QED
    BY <1>1, <1>2 DEF SetBestChain

\* The last hardened checkpoint is a block.
LEMMA LastHardenedType ==
    ASSUME NEW v \in DOMAIN Hardened
    PROVE  LastHardened(v) \in Block
  BY CheckpointAssumption DEF LastHardened, IsHighest
-----------------------------------------------------------------------------
\* The first start establishes the invariant.
LEMMA InitInv == Init => IInv
  <1> SUFFICES ASSUME Init PROVE IInv
    OBVIOUS
  <1>1. TypeOK
    <2>1. LastHardened(0) \in Block
      BY LastHardenedType, IntakeAssumption
    <2>2. IdleJob \in Job
      BY DEF IdleJob, Job
    <2> QED
      BY <2>1, <2>2, TreeAssumption, IntakeAssumption DEF Init, TypeOK
  <1>2. IndexClosed
    BY TreeAssumption DEF Init, IndexClosed, PprevClosed
  <1>3. DiskFollows
    BY DEF Init, DiskFollows, OnPath
  <1>4. JobFollows /\ ResetPending /\ KeyPending
    BY DEF Init, IdleJob, JobFollows, ResetPending, KeyPending
  <1>5. SyncInBest
    BY AncestorsType, TreeAssumption DEF Init, SyncInBest, OnPath
  <1> QED
    BY <1>1, <1>2, <1>3, <1>4, <1>5 DEF IInv
-----------------------------------------------------------------------------
\* AcceptBlock's return leaves a well-formed job and well-formed orphan maps.
LEMMA AcceptReturnsEffect ==
    ASSUME TypeOK, NEW b \in Block, NEW ok \in BOOLEAN, AcceptReturns(b, ok)
    PROVE  /\ job' \in Job
           /\ job'.pc \in {"idle", "queue"}
           /\ job'.pc = "queue" => job'.vWorkQueue # <<>>
           /\ mapOrphanBlocks' \subseteq Block /\ mapOrphanBlocksByPrev' \subseteq Block
           /\ setStakeSeenOrphan' \subseteq {Stake[c] : c \in Block} \ {None}
  <1>1. CASE job.vWorkQueue = <<>>
    <2>1. job' = IF ok THEN [pc |-> "queue", block |-> None, vWorkQueue |-> <<b>>] ELSE IdleJob
      BY <1>1 DEF AcceptReturns
    <2>2. <<b>> \in Seq(Block) /\ <<b>> # <<>>
      OBVIOUS
    <2>3. UNCHANGED <<mapOrphanBlocks, mapOrphanBlocksByPrev, setStakeSeenOrphan>>
      BY <1>1 DEF AcceptReturns, orphans
    <2>4. job' \in Job /\ job'.pc \in {"idle", "queue"}
          /\ (job'.pc = "queue" => job'.vWorkQueue # <<>>)
      BY <2>1, <2>2 DEF Job, IdleJob
    <2> QED
      BY <2>3, <2>4 DEF TypeOK
  <1>2. CASE job.vWorkQueue # <<>>
    <2>1. job' = [pc |-> "queue", block |-> None,
                  vWorkQueue |-> IF ok THEN Append(job.vWorkQueue, b) ELSE job.vWorkQueue]
      BY <1>2 DEF AcceptReturns
    <2>2. job.vWorkQueue \in Seq(Block)
      BY DEF TypeOK, Job
    <2>3. /\ mapOrphanBlocks' = mapOrphanBlocks \ {b}
          /\ setStakeSeenOrphan' = setStakeSeenOrphan \ {Stake[b]}
          /\ mapOrphanBlocksByPrev' = mapOrphanBlocksByPrev
      BY <1>2 DEF AcceptReturns
    <2> QED
      BY <1>2, <2>1, <2>2, <2>3 DEF Job, TypeOK
  <1> QED
    BY <1>1, <1>2

\* A new index entry: of a block whose parent is indexed and that descends from
\* the checkpoint.
LEMMA AddToBlockIndexEffect ==
    ASSUME IInv, NEW b \in Block \ {Genesis}, Acceptable(b), AddToBlockIndex(b)
    PROVE  /\ mapBlockIndex' = mapBlockIndex \cup {b}
           /\ mapBlockIndex' \in PprevClosed
           /\ job' \in Job /\ job'.pc \in {"best", "pending"} /\ job'.block = b
           /\ strict => OnPath(hashSyncCheckpoint, b)
  <1>1. mapBlockIndex' = mapBlockIndex \cup {b}
    BY DEF AddToBlockIndex
  <1>2. mapBlockIndex' \in PprevClosed
    BY <1>1 DEF IInv, IndexClosed, PprevClosed, Acceptable
  <1>3. job' \in Job /\ job'.pc \in {"best", "pending"} /\ job'.block = b
    BY DEF AddToBlockIndex, Job, IInv, TypeOK
  <1>4. strict => OnPath(hashSyncCheckpoint, b)
    BY CheckSyncDescends DEF Acceptable, IInv, TypeOK
  <1> QED
    BY <1>1, <1>2, <1>3, <1>4

\* A step that leaves the index, the best block, the checkpoint and the start alone
\* and ends idle or in the queue keeps the invariant.
LEMMA QuietStep ==
    ASSUME IInv,
           UNCHANGED <<mapBlockIndex, best, start, hashSyncCheckpoint>>,
           hashPendingCheckpoint' \in Block \cup {None}, hashInvalidCheckpoint' \in Block \cup {None},
           mapOrphanBlocks' \subseteq Block, mapOrphanBlocksByPrev' \subseteq Block,
           setStakeSeenOrphan' \subseteq {Stake[c] : c \in Block} \ {None},
           job' \in Job, job'.pc \in {"idle", "queue"},
           job'.pc = "queue" => job'.vWorkQueue # <<>>,
           job.pc # "key",
           delivered' \subseteq Block
    PROVE  IInv'
  <1> USE DEF best, start
  <1>1. TypeOK'
    BY DEF IInv, TypeOK
  <1>2. IndexClosed' /\ DiskFollows' /\ SyncInBest'
    BY DEF IInv, IndexClosed, DiskFollows, SyncInBest, OnPath, Good
  <1>3. JobFollows' /\ ResetPending' /\ KeyPending'
    BY DEF IInv, JobFollows, ResetPending, KeyPending
  <1> QED
    BY <1>1, <1>2, <1>3 DEF IInv

\* A step that indexes block b.
LEMMA IndexStep ==
    ASSUME IInv, NEW b \in Block \ {Genesis}, Acceptable(b), AddToBlockIndex(b),
           UNCHANGED <<best, checkpoints, orphans, start>>,
           job.pc # "key", delivered' \subseteq Block
    PROVE  IInv'
  <1> USE DEF best, start, checkpoints, orphans
  <1>1. /\ mapBlockIndex' = mapBlockIndex \cup {b}
        /\ mapBlockIndex' \in PprevClosed
        /\ job' \in Job /\ job'.pc \in {"best", "pending"} /\ job'.block = b
        /\ strict => OnPath(hashSyncCheckpoint, b)
    BY AddToBlockIndexEffect
  <1>2. TypeOK'
    BY <1>1 DEF IInv, TypeOK
  <1>3. IndexClosed' /\ DiskFollows' /\ SyncInBest'
    BY <1>1 DEF IInv, IndexClosed, DiskFollows, SyncInBest, OnPath, Good
  <1>4. JobFollows' /\ ResetPending' /\ KeyPending'
    BY <1>1 DEF IInv, JobFollows, ResetPending, KeyPending, OnPath
  <1> QED
    BY <1>2, <1>3, <1>4 DEF IInv

\* A step that moves the best chain to block b, a descendant of the checkpoint.
LEMMA MoveBest ==
    ASSUME IInv, NEW b \in mapBlockIndex, SetBestChain(b),
           UNCHANGED <<mapBlockIndex, hashSyncCheckpoint, resetDone, strict>>,
           strict /\ resetDone => OnPath(hashSyncCheckpoint, b)
    PROVE  /\ hashBestChain' = b /\ dbBest' \in mapBlockIndex
           /\ IndexClosed' /\ DiskFollows' /\ SyncInBest'
  <1>1. b \in Block /\ Ancestors[b] \subseteq mapBlockIndex
    BY ClosedAncestors DEF IInv, IndexClosed, PprevClosed
  <1>2. /\ hashBestChain' = b
        /\ dbBest' \in Ancestors[b]
        /\ \A d \in Ancestors[b] : Good(d) => OnPath(d, dbBest')
    BY <1>1, SetBestChainEffect
  <1>3. IndexClosed'
    BY DEF IInv, IndexClosed
  <1>4. DiskFollows'
    BY <1>2 DEF DiskFollows
  <1>5. SyncInBest'
    BY <1>2 DEF SyncInBest
  <1> QED
    BY <1>1, <1>2, <1>3, <1>4, <1>5
-----------------------------------------------------------------------------
\* Every step keeps the invariant.
LEMMA NextInv == IInv /\ [Next]_vars => IInv'
  <1> SUFFICES ASSUME IInv, [Next]_vars PROVE IInv'
    OBVIOUS
  <1> USE DEF best, start, checkpoints, orphans
  <1>t. TypeOK
    BY DEF IInv
  <1>1. ASSUME NEW b \in Block, RefuseBlock(b) PROVE IInv'
    BY <1>1, <1>t, QuietStep DEF RefuseBlock, Deliver, Idle, TypeOK
  <1>2. ASSUME NEW b \in Block, HoldOrphan(b) PROVE IInv'
    <2>1. setStakeSeenOrphan' \subseteq {Stake[c] : c \in Block} \ {None}
      BY <1>2, <1>t DEF HoldOrphan, TypeOK
    <2> QED
      BY <1>2, <1>t, <2>1, QuietStep DEF HoldOrphan, Deliver, Idle, TypeOK
  <1>3. ASSUME NEW b \in Block, StoreBlock(b) PROVE IInv'
    BY <1>3, <1>t, IndexStep DEF StoreBlock, Deliver, Idle, TypeOK
  <1>4. ASSUME NEW c \in Checkpoint, ProcessSyncCheckpoint(c) PROVE IInv'
    <2> DEFINE move == ~IsInMainChain(c)
    <2>0. c \in Block /\ job.pc = "idle" /\ hashBestChain = dbBest
      BY <1>4, IntakeAssumption DEF ProcessSyncCheckpoint, Idle, Sound
    <2>1. CASE UNCHANGED <<best, job, hashSyncCheckpoint>>
      <3>1. hashPendingCheckpoint' \in Block \cup {None} /\ hashInvalidCheckpoint' \in Block \cup {None}
        BY <1>4, <1>t, <2>0 DEF ProcessSyncCheckpoint, TypeOK
      <3> QED
        BY <1>4, <1>t, <2>0, <2>1, <3>1, QuietStep DEF ProcessSyncCheckpoint, TypeOK
    <2>2. CASE /\ c \in mapBlockIndex /\ ValidateSyncCheckpoint(c)
               /\ IF move THEN SetBestChain(c) ELSE UNCHANGED best
               /\ job' = [job EXCEPT !.pc = "adopt", !.block = c]
               /\ UNCHANGED checkpoints
      <3>1. OnPath(hashSyncCheckpoint, c)
        BY <2>2 DEF ValidateSyncCheckpoint
      <3>2. UNCHANGED <<mapBlockIndex, orphans, start, delivered>>
        BY <1>4 DEF ProcessSyncCheckpoint
      <3>3. job' \in Job /\ job'.pc = "adopt" /\ job'.block = c
        BY <1>t, <2>2, <2>0 DEF TypeOK, Job
      <3>4. /\ hashBestChain' \in mapBlockIndex /\ dbBest' \in mapBlockIndex
            /\ OnPath(c, hashBestChain')
            /\ IndexClosed' /\ DiskFollows' /\ SyncInBest'
        <4>1. CASE move
          BY <2>2, <2>0, <3>1, <3>2, <4>1, MoveBest, AncestorsType DEF OnPath
        <4>2. CASE ~move
          BY <1>t, <2>2, <3>2, <4>2
             DEF IInv, IndexClosed, DiskFollows, SyncInBest, IsInMainChain, OnPath, Good, TypeOK
        <4> QED
          BY <4>1, <4>2
      <3>5. TypeOK'
        BY <1>t, <2>2, <3>2, <3>3, <3>4 DEF TypeOK
      <3>6. JobFollows' /\ ResetPending' /\ KeyPending'
        BY <2>0, <2>2, <3>1, <3>2, <3>3, <3>4 DEF IInv, JobFollows, ResetPending, KeyPending
      <3> QED
        BY <3>4, <3>5, <3>6 DEF IInv
    <2> QED
      BY <1>4, <2>1, <2>2 DEF ProcessSyncCheckpoint
  <1>5. ASSUME NEW o \in Block, StoreOrphan(o) PROVE IInv'
    <2>1. job.pc = "queue" /\ delivered' \subseteq Block
      BY <1>5, <1>t DEF StoreOrphan, TypeOK
    <2>2. CASE Acceptable(o)
      <3>1. o # Genesis
        BY <2>2 DEF Acceptable, IInv, IndexClosed
      <3> QED
        BY <1>5, <2>1, <2>2, <3>1, IndexStep DEF StoreOrphan
    <2>3. CASE ~Acceptable(o)
      BY <1>5, <1>t, <2>1, <2>3, AcceptReturnsEffect, QuietStep DEF StoreOrphan, TypeOK
    <2> QED
      BY <2>2, <2>3
  <1>6. CASE NextInQueue
    <2>1. job.pc = "queue" /\ job.vWorkQueue \in Seq(Block) /\ job.vWorkQueue # <<>>
      BY <1>6, <1>t DEF NextInQueue, IInv, JobFollows, TypeOK, Job
    <2>2. Tail(job.vWorkQueue) \in Seq(Block)
      BY <2>1
    <2>3. job' \in Job /\ job'.pc \in {"idle", "queue"}
          /\ (job'.pc = "queue" => job'.vWorkQueue # <<>>)
      <3>1. CASE Tail(job.vWorkQueue) = <<>>
        BY <1>6, <3>1 DEF NextInQueue, IdleJob, Job
      <3>2. CASE Tail(job.vWorkQueue) # <<>>
        BY <1>6, <1>t, <2>1, <2>2, <3>2 DEF NextInQueue, Job, TypeOK
      <3> QED
        BY <3>1, <3>2
    <2> QED
      BY <1>6, <1>t, <2>1, <2>3, QuietStep DEF NextInQueue, TypeOK
  <1>7. CASE NewBest
    <2>1. job.pc = "best" /\ job.block \in mapBlockIndex /\ job.block \in Block
      BY <1>7, <1>t DEF NewBest, IInv, JobFollows, TypeOK
    <2>2. UNCHANGED <<mapBlockIndex, checkpoints, start, delivered>>
      BY <1>7 DEF NewBest
    <2>3. CASE SetBestChain(job.block) /\ job' = [job EXCEPT !.pc = "pending"] /\ UNCHANGED orphans
      <3>1. /\ hashBestChain' = job.block /\ dbBest' \in mapBlockIndex
            /\ IndexClosed' /\ DiskFollows' /\ SyncInBest'
        <4>1. strict => OnPath(hashSyncCheckpoint, job.block)
          BY <2>1 DEF IInv, JobFollows
        <4> QED
          BY <2>1, <2>2, <2>3, <4>1, MoveBest
      <3>2. job' \in Job /\ job'.pc = "pending" /\ job'.block = job.block
        BY <1>t, <2>3 DEF TypeOK, Job
      <3>3. TypeOK'
        BY <1>t, <2>1, <2>2, <2>3, <3>1, <3>2 DEF TypeOK
      <3>4. JobFollows' /\ ResetPending' /\ KeyPending'
        BY <2>1, <2>2, <3>2 DEF IInv, JobFollows, ResetPending, KeyPending
      <3> QED
        BY <3>1, <3>3, <3>4 DEF IInv
    <2>4. CASE AcceptReturns(job.block, FALSE) /\ UNCHANGED best
      BY <1>t, <2>1, <2>2, <2>4, AcceptReturnsEffect, QuietStep DEF TypeOK
    <2> QED
      BY <1>7, <2>3, <2>4 DEF NewBest
  <1>8. CASE AcceptPendingSyncCheckpoint
    <2> DEFINE c == hashPendingCheckpoint
               move == ~IsInMainChain(c)
    <2>0. /\ job.pc = "pending" /\ job.block \in mapBlockIndex /\ job.block \in Block
          /\ hashBestChain = dbBest
      BY <1>8, <1>t DEF AcceptPendingSyncCheckpoint, Sound, IInv, JobFollows, TypeOK
    <2>1. UNCHANGED <<mapBlockIndex, start, delivered>>
      BY <1>8 DEF AcceptPendingSyncCheckpoint
    <2>2. CASE AcceptReturns(job.block, TRUE) /\ UNCHANGED <<best, hashSyncCheckpoint>>
      <3>1. hashPendingCheckpoint' \in Block \cup {None} /\ hashInvalidCheckpoint' \in Block \cup {None}
        BY <1>8, <1>t DEF AcceptPendingSyncCheckpoint, TypeOK
      <3> QED
        BY <1>t, <2>0, <2>1, <2>2, <3>1, AcceptReturnsEffect, QuietStep DEF TypeOK
    <2>3. CASE /\ c \in mapBlockIndex /\ ValidateSyncCheckpoint(c)
               /\ IF move THEN SetBestChain(c) ELSE UNCHANGED best
               /\ job' = [job EXCEPT !.pc = "write"]
               /\ UNCHANGED <<checkpoints, orphans>>
      <3>1. OnPath(hashSyncCheckpoint, c) /\ c \in Block
        BY <1>t, <2>3 DEF ValidateSyncCheckpoint, TypeOK
      <3>2. job' \in Job /\ job'.pc = "write" /\ job'.block = job.block
        BY <1>t, <2>3 DEF TypeOK, Job
      <3>3. /\ hashBestChain' \in mapBlockIndex /\ dbBest' \in mapBlockIndex
            /\ OnPath(c, hashBestChain')
            /\ IndexClosed' /\ DiskFollows' /\ SyncInBest'
        <4>1. CASE move
          BY <2>1, <2>3, <3>1, <4>1, MoveBest, AncestorsType DEF OnPath
        <4>2. CASE ~move
          BY <1>t, <2>1, <2>3, <4>2
             DEF IInv, IndexClosed, DiskFollows, SyncInBest, IsInMainChain, OnPath, Good, TypeOK
        <4> QED
          BY <4>1, <4>2
      <3>4. TypeOK'
        BY <1>t, <2>1, <2>3, <3>2, <3>3 DEF TypeOK
      <3>5. JobFollows' /\ ResetPending' /\ KeyPending'
        BY <2>0, <2>1, <2>3, <3>1, <3>2, <3>3 DEF IInv, JobFollows, ResetPending, KeyPending
      <3> QED
        BY <3>3, <3>4, <3>5 DEF IInv
    <2> QED
      BY <1>8, <2>2, <2>3 DEF AcceptPendingSyncCheckpoint
  <1>9. CASE WritePending
    <2> DEFINE c == hashPendingCheckpoint
    <2>1. /\ job.pc = "write" /\ job.block \in Block
          /\ c \in mapBlockIndex /\ OnPath(c, hashBestChain)
      BY <1>9, <1>t DEF WritePending, IInv, JobFollows, TypeOK
    <2>2. /\ UNCHANGED <<mapBlockIndex, best, delivered, hashInvalidCheckpoint,
                          strCheckpointPubKey, strict, version, crashes>>
          /\ hashSyncCheckpoint' = c /\ hashPendingCheckpoint' = None /\ resetDone' = TRUE
          /\ AcceptReturns(job.block, TRUE)
      BY <1>9 DEF WritePending, WriteSyncCheckpoint
    <2>3. /\ job' \in Job
          /\ job'.pc \in {"idle", "queue"}
          /\ job'.pc = "queue" => job'.vWorkQueue # <<>>
          /\ mapOrphanBlocks' \subseteq Block /\ mapOrphanBlocksByPrev' \subseteq Block
          /\ setStakeSeenOrphan' \subseteq {Stake[d] : d \in Block} \ {None}
      BY <1>t, <2>1, <2>2, AcceptReturnsEffect
    <2>4. TypeOK'
      BY <1>t, <2>1, <2>2, <2>3 DEF TypeOK
    <2>5. IndexClosed' /\ DiskFollows' /\ SyncInBest'
      BY <2>1, <2>2 DEF IInv, IndexClosed, DiskFollows, SyncInBest, OnPath, Good
    <2>6. JobFollows' /\ ResetPending' /\ KeyPending'
      BY <2>1, <2>2, <2>3 DEF IInv, JobFollows, ResetPending, KeyPending
    <2> QED
      BY <2>4, <2>5, <2>6 DEF IInv
  <1>10. CASE WriteReceived
    <2>1. /\ job.pc = "adopt" /\ job.block \in mapBlockIndex
          /\ OnPath(job.block, hashBestChain)
      BY <1>10 DEF WriteReceived, IInv, JobFollows
    <2>2. /\ UNCHANGED <<mapBlockIndex, best, orphans, delivered, hashInvalidCheckpoint,
                          strCheckpointPubKey, strict, version, crashes>>
          /\ hashSyncCheckpoint' = job.block /\ hashPendingCheckpoint' = None
          /\ resetDone' = TRUE /\ job' = IdleJob
      BY <1>10 DEF WriteReceived, WriteSyncCheckpoint
    <2>3. job' \in Job /\ job'.pc = "idle"
      BY <2>2 DEF IdleJob, Job
    <2>4. TypeOK'
      BY <1>t, <2>1, <2>2, <2>3 DEF TypeOK
    <2>5. IndexClosed' /\ DiskFollows' /\ SyncInBest'
      BY <2>1, <2>2 DEF IInv, IndexClosed, DiskFollows, SyncInBest, OnPath, Good
    <2>6. JobFollows' /\ ResetPending' /\ KeyPending'
      BY <2>1, <2>2, <2>3 DEF IInv, JobFollows, ResetPending, KeyPending
    <2> QED
      BY <2>4, <2>5, <2>6 DEF IInv
  <1>11. ASSUME NEW v \in DOMAIN Hardened, Restart(v) PROVE IInv'
    <2>1. /\ job' \in Job
          /\ job'.pc = IF v = strCheckpointPubKey THEN "idle" ELSE "key"
      <3>1. job' = [IdleJob EXCEPT !.pc = IF v = strCheckpointPubKey THEN "idle" ELSE "key"]
        BY <1>11 DEF Restart
      <3>2. IdleJob \in Job
        BY DEF IdleJob, Job
      <3> QED
        BY <3>1, <3>2 DEF Job
    <2>2. TypeOK'
      BY <1>11, <1>t, <2>1, IntakeAssumption DEF Restart, TypeOK
    <2>3. IndexClosed' /\ DiskFollows'
      BY <1>11 DEF Restart, IInv, IndexClosed, DiskFollows, OnPath
    <2>4. SyncInBest'
      <3> SUFFICES ASSUME strict', resetDone', Good(hashSyncCheckpoint')
                   PROVE  OnPath(hashSyncCheckpoint', hashBestChain')
        BY DEF SyncInBest, Good
      <3>1. /\ hashSyncCheckpoint' = hashSyncCheckpoint /\ hashBestChain' = dbBest
            /\ strict /\ resetDone
        BY <1>11 DEF Restart
      <3>2. OnPath(hashSyncCheckpoint, hashBestChain)
        BY <3>1 DEF IInv, SyncInBest
      <3> QED
        BY <3>1, <3>2 DEF IInv, DiskFollows, OnPath
    <2>5. JobFollows'
      BY <2>1 DEF JobFollows
    <2>6. ResetPending' /\ KeyPending'
      <3>1. /\ version' = v /\ strCheckpointPubKey' = strCheckpointPubKey
            /\ resetDone' => resetDone /\ v = version
        BY <1>11 DEF Restart
      <3>2. v # strCheckpointPubKey /\ v = version => ~resetDone
        BY DEF IInv, ResetPending, KeyPending
      <3> QED
        BY <2>1, <3>1, <3>2 DEF ResetPending, KeyPending
    <2> QED
      BY <2>2, <2>3, <2>4, <2>5, <2>6 DEF IInv
  <1>12. CASE WriteCheckpointPubKey
    <2>1. job' \in Job /\ job'.pc = "reset" /\ job.pc = "key"
      BY <1>12, <1>t DEF WriteCheckpointPubKey, TypeOK, Job
    <2>2. TypeOK'
      BY <1>12, <1>t, <2>1 DEF WriteCheckpointPubKey, TypeOK
    <2>3. IndexClosed' /\ DiskFollows' /\ SyncInBest'
      BY <1>12 DEF WriteCheckpointPubKey, IInv, IndexClosed, DiskFollows, SyncInBest, OnPath, Good
    <2>4. JobFollows' /\ ResetPending' /\ KeyPending'
      BY <1>12, <2>1 DEF WriteCheckpointPubKey, IInv, JobFollows, ResetPending, KeyPending
    <2> QED
      BY <2>2, <2>3, <2>4 DEF IInv
  <1>13. CASE ResetSyncCheckpoint
    <2> DEFINE h == LastHardened(version)
               move == h \in mapBlockIndex /\ ~IsInMainChain(h)
    <2>0. h \in Block
      BY <1>t, LastHardenedType DEF TypeOK
    <2>1. /\ job.pc = "reset" /\ ~resetDone
          /\ UNCHANGED <<mapBlockIndex, hashSyncCheckpoint, hashInvalidCheckpoint, orphans,
                         start, delivered>>
      BY <1>13 DEF ResetSyncCheckpoint, IInv, ResetPending
    <2>2. job' \in Job /\ job'.pc \in {"resetwrite", "stopped"}
      BY <1>13, <1>t DEF ResetSyncCheckpoint, TypeOK, Job
    <2>3. hashPendingCheckpoint' \in Block \cup {None}
      BY <1>13, <1>t, <2>0 DEF ResetSyncCheckpoint, TypeOK
    <2>4. /\ hashBestChain' \in mapBlockIndex /\ dbBest' \in mapBlockIndex
          /\ IndexClosed' /\ DiskFollows' /\ SyncInBest'
      <3>1. CASE move /\ SetBestChain(h)
        BY <2>1, <3>1, MoveBest
      <3>2. CASE UNCHANGED best
        BY <1>t, <2>1, <3>2
           DEF IInv, IndexClosed, DiskFollows, SyncInBest, OnPath, Good, TypeOK
      <3> QED
        BY <1>13, <3>1, <3>2 DEF ResetSyncCheckpoint
    <2>5. TypeOK'
      BY <1>t, <2>1, <2>2, <2>3, <2>4 DEF TypeOK
    <2>6. JobFollows' /\ ResetPending' /\ KeyPending'
      BY <2>1, <2>2 DEF IInv, JobFollows, ResetPending, KeyPending
    <2> QED
      BY <2>4, <2>5, <2>6 DEF IInv
  <1>14. CASE WriteReset
    <2>1. /\ hashSyncCheckpoint' \in mapBlockIndex
          /\ OnPath(hashSyncCheckpoint', hashBestChain)
      BY <1>14 DEF WriteReset, IsHighest, IsInMainChain
    <2>2. /\ UNCHANGED <<mapBlockIndex, best, hashPendingCheckpoint, hashInvalidCheckpoint,
                          orphans, delivered, strCheckpointPubKey, strict, version, crashes>>
          /\ resetDone' = TRUE /\ job' = IdleJob /\ job.pc = "resetwrite"
      BY <1>14 DEF WriteReset
    <2>3. job' \in Job /\ job'.pc = "idle"
      BY <2>2 DEF IdleJob, Job
    <2>4. TypeOK'
      BY <1>t, <2>1, <2>2, <2>3 DEF TypeOK
    <2>5. IndexClosed' /\ DiskFollows' /\ SyncInBest'
      BY <2>1, <2>2 DEF IInv, IndexClosed, DiskFollows, SyncInBest, OnPath, Good
    <2>6. JobFollows' /\ ResetPending' /\ KeyPending'
      BY <2>2, <2>3 DEF IInv, JobFollows, ResetPending, KeyPending
    <2> QED
      BY <2>4, <2>5, <2>6 DEF IInv
  <1>15. CASE UNCHANGED vars
    <2>1. TypeOK' /\ IndexClosed' /\ DiskFollows' /\ SyncInBest'
      BY <1>15 DEF vars, IInv, TypeOK, IndexClosed, DiskFollows, SyncInBest, OnPath, Good
    <2>2. JobFollows' /\ ResetPending' /\ KeyPending'
      BY <1>15 DEF vars, IInv, JobFollows, ResetPending, KeyPending, OnPath
    <2> QED
      BY <2>1, <2>2 DEF IInv
  <1> QED
    BY <1>1, <1>2, <1>3, <1>4, <1>5, <1>6, <1>7, <1>8, <1>9, <1>10, <1>11, <1>12, <1>13, <1>14,
       <1>15 DEF Next, HandlerStep

\* The inductive invariant holds throughout.
THEOREM Invariant == Spec => []IInv
  BY InitInv, NextInv, PTL DEF Spec

\* Type correctness of the intake of blocks (ProcessBlock, AcceptBlock,
\* ProcessSyncCheckpoint, LoadBlockIndex).
THEOREM TypeCorrect == Spec => []TypeOK
  <1>1. IInv => TypeOK
    BY DEF IInv
  <1> QED
    BY Invariant, <1>1, PTL

\* The best chain goes through the synchronized checkpoint, in memory and on disk,
\* for every tree, delivery order, checkpoint message, crash and upgrade.
THEOREM CheckpointOnBestChain == Spec => []SyncOnBestChain
  <1>1. IInv => SyncOnBestChain
    BY DEF IInv, SyncInBest, DiskFollows, SyncOnBestChain, OnPath
  <1> QED
    BY Invariant, <1>1, PTL

\* WriteSyncCheckpoint moves the checkpoint to a descendant only, also when the
\* checkpoint waited for its block; LoadBlockIndex's reset is the exception.
THEOREM CheckpointOnlyAdvances == Spec => CheckpointAdvances
  <1>1. ASSUME IInv, [Next]_vars
        PROVE  [\/ hashSyncCheckpoint' = hashSyncCheckpoint
                \/ OnPath(hashSyncCheckpoint, hashSyncCheckpoint')
                \/ job.pc = "resetwrite"]_vars
    <2>1. CASE WritePending
      BY <1>1, <2>1 DEF WritePending, WriteSyncCheckpoint, IInv, JobFollows
    <2>2. CASE WriteReceived
      BY <1>1, <2>2 DEF WriteReceived, WriteSyncCheckpoint, IInv, JobFollows
    <2>3. CASE WriteReset
      BY <2>3 DEF WriteReset
    <2>4. CASE \/ \E b \in Block : RefuseBlock(b) \/ HoldOrphan(b) \/ StoreBlock(b) \/ StoreOrphan(b)
               \/ \E c \in Checkpoint : ProcessSyncCheckpoint(c)
               \/ NextInQueue \/ NewBest \/ AcceptPendingSyncCheckpoint
               \/ WriteCheckpointPubKey \/ ResetSyncCheckpoint
               \/ \E v \in DOMAIN Hardened : Restart(v)
      BY <2>4 DEF checkpoints, RefuseBlock, HoldOrphan, StoreBlock, StoreOrphan,
           ProcessSyncCheckpoint, NextInQueue, NewBest, AcceptPendingSyncCheckpoint,
           WriteCheckpointPubKey, ResetSyncCheckpoint, Restart
    <2>5. CASE UNCHANGED vars
      BY <2>5 DEF vars, checkpoints
    <2> QED
      BY <1>1, <2>1, <2>2, <2>3, <2>4, <2>5 DEF Next, HandlerStep
  <1> QED
    BY Invariant, <1>1, PTL DEF Spec, CheckpointAdvances
-----------------------------------------------------------------------------
\* The inductive invariant behind OrphansSettled, PendingSettled and
\* DeliveredIndexed.  AcceptBlock runs for a delivered block or for an orphan that
\* waited for the head of the work queue, whose blocks are all indexed ...
Storing == job.pc \in {"best", "pending", "write"}

QueueInv ==
    /\ job.pc \in {"idle", "adopt", "key", "reset", "resetwrite", "stopped"} => job.vWorkQueue = <<>>
    /\ \A i \in DOMAIN job.vWorkQueue : job.vWorkQueue[i] \in mapBlockIndex
    /\ Storing => IF job.vWorkQueue = <<>> THEN job.block \notin mapOrphanBlocks
                  ELSE job.block \in mapOrphanBlocks /\ Prev[job.block] = Head(job.vWorkQueue)

\* ... mapOrphanBlocksByPrev has every orphan, and those that the work queue has
\* just taken up ...
FiledInv ==
    /\ mapOrphanBlocks \subseteq mapOrphanBlocksByPrev
    /\ \A o \in mapOrphanBlocksByPrev \ mapOrphanBlocks :
         job.vWorkQueue # <<>> /\ Prev[o] = Head(job.vWorkQueue)

\* ... an indexed orphan is the one in hand, and an orphan whose parent is indexed
\* waits for the block in hand or for one in the queue, unless its chain is bad ...
OrphanInv ==
    \A o \in mapOrphanBlocks :
      /\ o \in mapBlockIndex => Storing /\ o = job.block
      /\ Prev[o] \in mapBlockIndex =>
           \/ ~Good(Prev[o])
           \/ Storing /\ Prev[o] = job.block
           \/ \E i \in DOMAIN job.vWorkQueue : job.vWorkQueue[i] = Prev[o]

\* ... the pending checkpoint is looked at before AcceptBlock of its block returns ...
PendingInv ==
    hashPendingCheckpoint \in mapBlockIndex /\ Good(hashPendingCheckpoint) =>
      job.pc = "write" \/ (job.pc \in {"best", "pending"} /\ job.block = hashPendingCheckpoint)

\* ... and a delivered block that was not kept broke a rule, and still does.
Objection(d) ==
    \/ d \in Refused \/ ~CheckHardened(version, d) \/ \E c \in Block : <<c, d>> \in Light
    \/ Stake[d] # None /\ \E e \in delivered \ {d} : Stake[e] = Stake[d]
    \/ ~OnPath(hashSyncCheckpoint, d) /\ ~OnPath(d, hashSyncCheckpoint)

DeliveryInv ==
    /\ mapBlockIndex \cup mapOrphanBlocks \subseteq delivered
    /\ setStakeSeenOrphan \subseteq {Stake[o] : o \in mapOrphanBlocks}
    /\ job.pc \in {"key", "reset", "resetwrite", "stopped"} => delivered \subseteq mapBlockIndex
    /\ \A d \in delivered \ (mapBlockIndex \cup mapOrphanBlocks) : Objection(d)

OInv == QueueInv /\ FiledInv /\ OrphanInv /\ PendingInv /\ DeliveryInv

\* The first start.
LEMMA InitOInv == Init => OInv
  <1> SUFFICES ASSUME Init PROVE OInv
    OBVIOUS
  <1>1. LastHardened(0) \in Block
    BY LastHardenedType, IntakeAssumption
  <1>2. QueueInv /\ FiledInv /\ OrphanInv
    BY DEF Init, IdleJob, QueueInv, FiledInv, OrphanInv, Storing
  <1>3. PendingInv
    BY CheckpointAssumption, TreeAssumption DEF Init, PendingInv
  <1>4. DeliveryInv
    BY DEF Init, DeliveryInv, IdleJob
  <1> QED
    BY <1>2, <1>3, <1>4 DEF OInv

\* A rule that a block breaks stays broken while the checkpoint only advances.
LEMMA ObjectionStays ==
    ASSUME IInv, NEW d \in Block, Objection(d),
           version' = version, delivered \subseteq delivered',
           hashSyncCheckpoint' \in Block, OnPath(hashSyncCheckpoint, hashSyncCheckpoint')
    PROVE  Objection(d)'
  <1>1. CASE ~OnPath(hashSyncCheckpoint, d) /\ ~OnPath(d, hashSyncCheckpoint)
    <2>1. ~OnPath(hashSyncCheckpoint', d)
      BY <1>1, AncestorsTrans DEF OnPath
    <2>2. ~OnPath(d, hashSyncCheckpoint')
      BY <1>1, AncestorsChain DEF OnPath
    <2> QED
      BY <2>1, <2>2 DEF Objection, OnPath
  <1>2. CASE Stake[d] # None /\ \E e \in delivered \ {d} : Stake[e] = Stake[d]
    BY <1>2 DEF Objection
  <1>3. CASE d \in Refused \/ ~CheckHardened(version, d) \/ \E c \in Block : <<c, d>> \in Light
    BY <1>3 DEF Objection, CheckHardened
  <1> QED
    BY <1>1, <1>2, <1>3 DEF Objection

\* A block that AcceptBlock refuses, its parent being indexed, breaks a rule.
LEMMA NotAcceptable ==
    ASSUME IInv, NEW b \in Block, b \notin mapBlockIndex, Prev[b] \in mapBlockIndex, ~Acceptable(b)
    PROVE  Objection(b)
  <1>1. b # Genesis /\ hashSyncCheckpoint \in mapBlockIndex /\ hashSyncCheckpoint \in Block
    BY DEF IInv, IndexClosed, TypeOK
  <1>2. CASE b \in Refused \/ ~CheckHardened(version, b)
    BY <1>2 DEF Objection
  <1>3. CASE ~CheckSync(b)
    <2>1. ~OnPath(b, hashSyncCheckpoint)
      BY <1>1, ClosedAncestors DEF OnPath, IInv, IndexClosed
    <2>2. ASSUME OnPath(hashSyncCheckpoint, b) PROVE FALSE
      <3>1. OnPath(hashSyncCheckpoint, Prev[b])
        BY <1>1, <2>2, AncestorsStep DEF OnPath
      <3>2. nHeight(b) > nHeight(hashSyncCheckpoint)
        <4>1. Prev[b] \in Block
          BY <1>1, TreeAssumption
        <4>2. Ancestors[hashSyncCheckpoint] \subseteq Ancestors[b] /\ b \in Ancestors[b]
          BY <1>1, <2>2, AncestorsTrans, AncestorsType DEF OnPath
        <4>3. b \notin Ancestors[hashSyncCheckpoint]
          BY <2>1 DEF OnPath
        <4>4. IsFiniteSet(Ancestors[b])
          BY AncestorsType, TreeAssumption, FS_Subset
        <4>5. Ancestors[hashSyncCheckpoint] # Ancestors[b]
          BY <4>2, <4>3
        <4>6. Cardinality(Ancestors[hashSyncCheckpoint]) < Cardinality(Ancestors[b])
          BY <4>2, <4>4, <4>5, FS_Subset, FS_CardinalityType
        <4>7. IsFiniteSet(Ancestors[hashSyncCheckpoint])
          BY <4>2, <4>4, FS_Subset
        <4> QED
          BY <4>4, <4>6, <4>7, FS_CardinalityType DEF nHeight
      <3> QED
        BY <1>1, <1>3, <3>1, <3>2, HeightType DEF CheckSync
    <2> QED
      BY <2>1, <2>2 DEF Objection
  <1> QED
    BY <1>2, <1>3 DEF Acceptable

\* AcceptBlock(b) returns: the block is out of hand, and whoever waits for it waits
\* for a block of the queue.
LEMMA ReturnsSettle ==
    ASSUME TypeOK, QueueInv, FiledInv, NEW b \in Block, NEW ok \in BOOLEAN, AcceptReturns(b, ok),
           mapBlockIndex' = mapBlockIndex,
           IF job.vWorkQueue = <<>> THEN b \notin mapOrphanBlocks
           ELSE b \in mapOrphanBlocks /\ Prev[b] = Head(job.vWorkQueue),
           \A o \in mapOrphanBlocks :
             /\ o \in mapBlockIndex => o = b
             /\ Prev[o] \in mapBlockIndex =>
                  ~Good(Prev[o]) \/ Prev[o] = b \/ \E i \in DOMAIN job.vWorkQueue : job.vWorkQueue[i] = Prev[o],
           ok => b \in mapBlockIndex,
           b \in mapBlockIndex => ok \/ ~Good(b)
    PROVE  QueueInv' /\ FiledInv' /\ OrphanInv' /\ job'.pc \in {"idle", "queue"}
  <1> DEFINE q == job.vWorkQueue
  <1>0. q \in Seq(Block)
    BY DEF TypeOK, Job
  <1>1. CASE q = <<>>
    <2>1. UNCHANGED <<mapOrphanBlocks, mapOrphanBlocksByPrev>>
      BY <1>1 DEF AcceptReturns, orphans
    <2>2. CASE ok
      <3>1. job' = [pc |-> "queue", block |-> None, vWorkQueue |-> <<b>>]
        BY <1>1, <2>2 DEF AcceptReturns
      <3>2. job'.pc = "queue" /\ job'.vWorkQueue = <<b>>
        BY <3>1
      <3>3. DOMAIN <<b>> = {1} /\ <<b>>[1] = b
        OBVIOUS
      <3>4. QueueInv'
        BY <2>2, <3>2, <3>3 DEF QueueInv, Storing
      <3>5. FiledInv'
        BY <1>1, <2>1 DEF FiledInv
      <3>6. OrphanInv'
        BY <1>1, <2>1, <3>2, <3>3 DEF OrphanInv, Good
      <3> QED
        BY <3>2, <3>4, <3>5, <3>6
    <2>3. CASE ~ok
      <3>1. job' = IdleJob
        BY <1>1, <2>3 DEF AcceptReturns
      <3>2. job'.pc = "idle" /\ job'.vWorkQueue = <<>>
        BY <3>1 DEF IdleJob
      <3>3. QueueInv'
        BY <3>2 DEF QueueInv, Storing
      <3>4. FiledInv'
        BY <1>1, <2>1 DEF FiledInv
      <3>5. OrphanInv'
        BY <1>1, <2>1, <2>3, <3>2 DEF OrphanInv, Good
      <3> QED
        BY <3>2, <3>3, <3>4, <3>5
    <2> QED
      BY <2>2, <2>3
  <1>2. CASE q # <<>>
    <2>1. /\ mapOrphanBlocks' = mapOrphanBlocks \ {b}
          /\ mapOrphanBlocksByPrev' = mapOrphanBlocksByPrev
          /\ job' = [pc |-> "queue", block |-> None, vWorkQueue |-> IF ok THEN Append(q, b) ELSE q]
      BY <1>2 DEF AcceptReturns
    <2>2. /\ job'.pc = "queue"
          /\ job'.vWorkQueue # <<>> /\ Head(job'.vWorkQueue) = Head(q)
          /\ \A i \in DOMAIN q : i \in DOMAIN job'.vWorkQueue /\ job'.vWorkQueue[i] = q[i]
          /\ ok => \E i \in DOMAIN job'.vWorkQueue : job'.vWorkQueue[i] = b
          /\ \A i \in DOMAIN job'.vWorkQueue : (job'.vWorkQueue[i] = b /\ ok) \/ (i \in DOMAIN q /\ job'.vWorkQueue[i] = q[i])
      <3>1. CASE ok
        <4> DEFINE a == Append(q, b)
        <4>1. job'.pc = "queue" /\ job'.vWorkQueue = a
          BY <2>1, <3>1
        <4>2. /\ a # <<>> /\ Head(a) = Head(q)
              /\ DOMAIN a = 1 .. Len(q) + 1 /\ DOMAIN q = 1 .. Len(q)
              /\ a[Len(q) + 1] = b /\ Len(q) \in Nat
              /\ \A i \in 1 .. Len(q) : a[i] = q[i]
          BY <1>0, <1>2
        <4> HIDE DEF a, q
        <4>3. \E i \in DOMAIN a : a[i] = b
          BY <4>2
        <4>4. \A i \in DOMAIN a : a[i] = b \/ (i \in DOMAIN q /\ a[i] = q[i])
          BY <4>2
        <4>5. \A i \in DOMAIN q : i \in DOMAIN a /\ a[i] = q[i]
          BY <4>2
        <4> QED
          BY <3>1, <4>1, <4>2, <4>3, <4>4, <4>5
      <3>2. CASE ~ok
        BY <1>2, <2>1, <3>2
      <3> QED
        BY <3>1, <3>2
    <2> HIDE DEF q
    <2>3. QueueInv'
      BY <2>2 DEF QueueInv, Storing, q
    <2>4. FiledInv'
      BY <1>2, <2>1, <2>2 DEF FiledInv, q
    <2>5. OrphanInv'
      <3> SUFFICES ASSUME NEW o \in mapOrphanBlocks \ {b}
                   PROVE  /\ o \notin mapBlockIndex
                          /\ Prev[o] \in mapBlockIndex =>
                               ~Good(Prev[o]) \/ \E i \in DOMAIN job'.vWorkQueue : job'.vWorkQueue[i] = Prev[o]
        BY <2>1 DEF OrphanInv, Good
      <3>1. o \notin mapBlockIndex
        OBVIOUS
      <3>2. ASSUME Prev[o] \in mapBlockIndex, Good(Prev[o])
            PROVE  \E i \in DOMAIN job'.vWorkQueue : job'.vWorkQueue[i] = Prev[o]
        BY <2>2, <3>2 DEF q
      <3> QED
        BY <3>1, <3>2
    <2> QED
      BY <2>2, <2>3, <2>4, <2>5
  <1> QED
    BY <1>1, <1>2

\* ... and what was delivered stays accounted for.
LEMMA ReturnsDelivered ==
    ASSUME IInv, DeliveryInv, NEW b \in Block, NEW ok \in BOOLEAN, AcceptReturns(b, ok),
           mapBlockIndex' = mapBlockIndex, delivered' = delivered, version' = version,
           hashSyncCheckpoint' \in Block, OnPath(hashSyncCheckpoint, hashSyncCheckpoint'),
           job'.pc \in {"idle", "queue"},
           b \in mapBlockIndex \/ Objection(b)
    PROVE  DeliveryInv'
  <1>1. \/ UNCHANGED <<mapOrphanBlocks, setStakeSeenOrphan>>
        \/ /\ mapOrphanBlocks' = mapOrphanBlocks \ {b}
           /\ setStakeSeenOrphan' = setStakeSeenOrphan \ {Stake[b]}
    BY DEF AcceptReturns, orphans
  <1>2. setStakeSeenOrphan' \subseteq {Stake[o] : o \in mapOrphanBlocks'}
    BY <1>1 DEF DeliveryInv
  <1>3. mapBlockIndex' \cup mapOrphanBlocks' \subseteq delivered'
    BY <1>1 DEF DeliveryInv
  <1>4. ASSUME NEW d \in delivered' \ (mapBlockIndex' \cup mapOrphanBlocks')
        PROVE  Objection(d)'
    <2>1. d \in Block /\ Objection(d)
      BY <1>1, <1>4 DEF DeliveryInv, IInv, TypeOK
    <2> QED
      BY <2>1, ObjectionStays
  <1> QED
    BY <1>2, <1>3, <1>4 DEF DeliveryInv

\* A block that SetBestChain fails on has a bad block in its chain.
LEMMA FailsBad ==
    ASSUME NEW b \in Block, SetBestChainFails(b)
    PROVE  ~Good(b)
  BY DEF SetBestChainFails, ToConnect, Good

\* The same invariant when orphans, index and work queue stand still: only pc moves.
LEMMA OrphansUntouched ==
    ASSUME QueueInv, FiledInv, OrphanInv,
           UNCHANGED <<mapBlockIndex, mapOrphanBlocks, mapOrphanBlocksByPrev>>,
           job'.vWorkQueue = job.vWorkQueue,
           \/ Storing /\ Storing' /\ job'.block = job.block
           \/ ~Storing /\ ~Storing' /\ job.vWorkQueue = <<>>
    PROVE  QueueInv' /\ FiledInv' /\ OrphanInv'
  <1>1. QueueInv'
    BY DEF QueueInv, Storing
  <1>2. FiledInv'
    BY DEF FiledInv
  <1>3. OrphanInv'
    BY DEF OrphanInv, Good
  <1> QED
    BY <1>1, <1>2, <1>3

\* Likewise for what was delivered, while the checkpoint stays or advances.
LEMMA DeliveryUntouched ==
    ASSUME IInv, DeliveryInv, UNCHANGED <<mapBlockIndex, mapOrphanBlocks, setStakeSeenOrphan, delivered, version>>,
           job'.pc \in {"key", "reset", "resetwrite", "stopped"} => job.pc \in {"key", "reset", "resetwrite", "stopped"},
           hashSyncCheckpoint' \in Block, OnPath(hashSyncCheckpoint, hashSyncCheckpoint')
    PROVE  DeliveryInv'
  <1>1. ASSUME NEW d \in delivered' \ (mapBlockIndex' \cup mapOrphanBlocks')
        PROVE  Objection(d)'
    <2>1. d \in Block /\ Objection(d)
      BY <1>1 DEF DeliveryInv, IInv, TypeOK
    <2> QED
      BY <2>1, ObjectionStays
  <1> QED
    BY <1>1 DEF DeliveryInv

\* A block that ProcessBlock turns away and does not have breaks a rule.
LEMMA RefusedObjection ==
    ASSUME IInv, DeliveryInv, NEW b \in Block, b \notin mapBlockIndex \cup mapOrphanBlocks,
           \/ ~Welcome(b)
           \/ IF Prev[b] \in mapBlockIndex THEN ~Acceptable(b) ELSE DuplicateStake(b, setStakeSeenOrphan)
    PROVE  Objection(b)
  <1>1. CASE DuplicateStake(b, setStakeSeen)
    <2>1. PICK e \in mapBlockIndex : Stake[e] = Stake[b] /\ Stake[b] # None
      BY <1>1 DEF DuplicateStake, setStakeSeen
    <2> QED
      BY <2>1 DEF Objection, DeliveryInv
  <1>2. CASE DuplicateStake(b, setStakeSeenOrphan)
    <2>1. Stake[b] \in setStakeSeenOrphan /\ Stake[b] # None
      BY <1>2 DEF DuplicateStake, IInv, TypeOK
    <2>2. PICK e \in mapOrphanBlocks : Stake[e] = Stake[b]
      BY <2>1 DEF DeliveryInv
    <2> QED
      BY <2>1, <2>2 DEF Objection, DeliveryInv
  <1>3. CASE TooLight(b)
    BY <1>3 DEF TooLight, Objection, IInv, TypeOK
  <1>4. CASE Prev[b] \in mapBlockIndex /\ ~Acceptable(b)
    BY <1>4, NotAcceptable
  <1> QED
    BY <1>1, <1>2, <1>3, <1>4 DEF Welcome

\* Every step keeps the second invariant.
LEMMA NextOInv == IInv /\ OInv /\ [Next]_vars => OInv'
  <1> SUFFICES ASSUME IInv, OInv, [Next]_vars PROVE OInv'
    OBVIOUS
  <1> USE DEF best, start, checkpoints, orphans
  <1>t. /\ TypeOK /\ QueueInv /\ FiledInv /\ OrphanInv /\ PendingInv /\ DeliveryInv
        /\ hashSyncCheckpoint \in Block /\ OnPath(hashSyncCheckpoint, hashSyncCheckpoint)
        /\ job.vWorkQueue \in Seq(Block)
    BY AncestorsType DEF IInv, OInv, TypeOK, OnPath, Job
  <1>i. Idle => job.vWorkQueue = <<>> /\ ~Storing
    BY <1>t DEF Idle, QueueInv, Storing
  <1>1. ASSUME NEW b \in Block, RefuseBlock(b) PROVE OInv'
    <2>1. /\ Idle /\ UNCHANGED <<mapBlockIndex, best, checkpoints, orphans, start, job>>
          /\ delivered' = delivered \cup {b}
      BY <1>1 DEF RefuseBlock, Deliver
    <2>2. QueueInv' /\ FiledInv' /\ OrphanInv'
      BY <1>t, <1>i, <2>1, OrphansUntouched DEF Storing
    <2>3. PendingInv'
      BY <1>t, <2>1 DEF PendingInv, Good
    <2>4. ASSUME NEW d \in delivered' \ (mapBlockIndex' \cup mapOrphanBlocks')
          PROVE  Objection(d)'
      <3>1. d \in Block
        BY <1>t, <2>1, <2>4 DEF TypeOK
      <3>2. Objection(d)
        BY <1>1, <1>t, <2>1, <2>4, RefusedObjection DEF RefuseBlock, DeliveryInv
      <3> QED
        BY <1>t, <2>1, <3>1, <3>2, ObjectionStays
    <2>5. DeliveryInv'
      BY <1>t, <2>1, <2>4 DEF DeliveryInv, Idle
    <2> QED
      BY <2>2, <2>3, <2>5 DEF OInv
  <1>2. ASSUME NEW b \in Block, HoldOrphan(b) PROVE OInv'
    <2>1. /\ Idle /\ UNCHANGED <<mapBlockIndex, best, checkpoints, start, job>>
          /\ delivered' = delivered \cup {b}
          /\ mapOrphanBlocks' = mapOrphanBlocks \cup {b}
          /\ mapOrphanBlocksByPrev' = mapOrphanBlocksByPrev \cup {b}
          /\ setStakeSeenOrphan' = setStakeSeenOrphan \cup ({Stake[b]} \ {None})
          /\ b \notin mapBlockIndex /\ Prev[b] \notin mapBlockIndex
      BY <1>2 DEF HoldOrphan, Deliver, Welcome
    <2>2. QueueInv'
      BY <1>t, <1>i, <2>1 DEF QueueInv, Storing
    <2>3. FiledInv'
      BY <1>t, <2>1 DEF FiledInv
    <2>4. OrphanInv'
      BY <1>t, <2>1 DEF OrphanInv, Good, Storing
    <2>5. PendingInv'
      BY <1>t, <2>1 DEF PendingInv, Good
    <2>6. ASSUME NEW d \in delivered' \ (mapBlockIndex' \cup mapOrphanBlocks')
          PROVE  Objection(d)'
      <3>1. d \in Block /\ Objection(d)
        BY <1>t, <2>1, <2>6 DEF TypeOK, DeliveryInv
      <3> QED
        BY <1>t, <2>1, <3>1, ObjectionStays
    <2>7. setStakeSeenOrphan' \subseteq {Stake[o] : o \in mapOrphanBlocks'}
      BY <1>t, <2>1 DEF DeliveryInv
    <2>8. DeliveryInv'
      BY <1>t, <2>1, <2>6, <2>7 DEF DeliveryInv, Idle
    <2> QED
      BY <2>2, <2>3, <2>4, <2>5, <2>8 DEF OInv
  <1>3. ASSUME NEW b \in Block, StoreBlock(b) PROVE OInv'
    <2>1. /\ Idle /\ UNCHANGED <<best, checkpoints, orphans, start>>
          /\ delivered' = delivered \cup {b} /\ b # Genesis
          /\ b \notin mapBlockIndex \cup mapOrphanBlocks /\ Acceptable(b) /\ AddToBlockIndex(b)
      BY <1>3 DEF StoreBlock, Deliver, Welcome
    <2>2. /\ mapBlockIndex' = mapBlockIndex \cup {b}
          /\ job'.pc \in {"best", "pending"} /\ job'.block = b
      BY <2>1, AddToBlockIndexEffect
    <2>3. job'.vWorkQueue = <<>>
      BY <1>t, <1>i, <2>1 DEF AddToBlockIndex, TypeOK, Job
    <2>4. QueueInv'
      BY <2>1, <2>2, <2>3 DEF QueueInv, Storing
    <2>5. FiledInv'
      BY <1>t, <1>i, <2>1 DEF FiledInv
    <2>6. OrphanInv'
      BY <1>t, <1>i, <2>1, <2>2 DEF OrphanInv, Good, Storing
    <2>7. PendingInv'
      BY <1>t, <2>1, <2>2 DEF PendingInv, Good, Idle
    <2>8. ASSUME NEW d \in delivered' \ (mapBlockIndex' \cup mapOrphanBlocks')
          PROVE  Objection(d)'
      <3>1. d \in Block /\ Objection(d)
        BY <1>t, <2>1, <2>2, <2>8 DEF TypeOK, DeliveryInv
      <3> QED
        BY <1>t, <2>1, <3>1, ObjectionStays
    <2>9. DeliveryInv'
      BY <1>t, <2>1, <2>2, <2>8 DEF DeliveryInv
    <2> QED
      BY <2>4, <2>5, <2>6, <2>7, <2>9 DEF OInv
  <1>4. ASSUME NEW c \in Checkpoint, ProcessSyncCheckpoint(c) PROVE OInv'
    <2>1. /\ Idle /\ UNCHANGED <<mapBlockIndex, orphans, start, delivered, hashSyncCheckpoint>>
          /\ job'.vWorkQueue = job.vWorkQueue /\ job'.pc \in {"idle", "adopt"}
          /\ hashPendingCheckpoint' = hashPendingCheckpoint
             \/ (c \notin mapBlockIndex /\ hashPendingCheckpoint' = c)
      BY <1>4, <1>t DEF ProcessSyncCheckpoint, Idle, TypeOK, Job
    <2>2. QueueInv' /\ FiledInv' /\ OrphanInv'
      BY <1>t, <1>i, <2>1, OrphansUntouched DEF Storing
    <2>3. PendingInv'
      BY <1>t, <2>1 DEF PendingInv, Good, Idle
    <2>4. DeliveryInv'
      BY <1>t, <2>1, DeliveryUntouched
    <2> QED
      BY <2>2, <2>3, <2>4 DEF OInv
  <1>5. ASSUME NEW o \in Block, StoreOrphan(o) PROVE OInv'
    <2>1. /\ job.pc = "queue" /\ o \in mapOrphanBlocks /\ Prev[o] = Head(job.vWorkQueue)
          /\ job.vWorkQueue # <<>>
          /\ UNCHANGED <<best, checkpoints, start, delivered>>
      BY <1>5 DEF StoreOrphan, IInv, JobFollows
    <2>2. o \notin mapBlockIndex /\ Prev[o] \in mapBlockIndex
      <3>1. o \notin mapBlockIndex
        BY <1>t, <2>1 DEF OrphanInv, Storing
      <3>2. 1 \in DOMAIN job.vWorkQueue /\ Head(job.vWorkQueue) = job.vWorkQueue[1]
        BY <1>t, <2>1
      <3> QED
        BY <1>t, <2>1, <3>1, <3>2 DEF QueueInv
    <2>3. CASE Acceptable(o)
      <3>1. o # Genesis
        BY <2>2 DEF IInv, IndexClosed
      <3>2. AddToBlockIndex(o) /\ UNCHANGED orphans
        BY <1>5, <2>3 DEF StoreOrphan
      <3>3. /\ mapBlockIndex' = mapBlockIndex \cup {o}
            /\ job'.pc \in {"best", "pending"} /\ job'.block = o
        BY <2>3, <3>1, <3>2, AddToBlockIndexEffect
      <3>4. job'.vWorkQueue = job.vWorkQueue
        BY <1>t, <3>2 DEF AddToBlockIndex, TypeOK, Job
      <3>5. QueueInv'
        BY <1>t, <2>1, <3>2, <3>3, <3>4 DEF QueueInv, Storing
      <3>6. FiledInv'
        BY <1>t, <3>2, <3>4 DEF FiledInv
      <3>7. OrphanInv'
        BY <1>t, <2>1, <3>2, <3>3, <3>4 DEF OrphanInv, Good, Storing
      <3>8. PendingInv'
        BY <1>t, <2>1, <3>3 DEF PendingInv, Good
      <3>9. ASSUME NEW d \in delivered' \ (mapBlockIndex' \cup mapOrphanBlocks')
            PROVE  Objection(d)'
        <4>1. d \in Block /\ Objection(d)
          BY <1>t, <2>1, <3>2, <3>3, <3>9 DEF TypeOK, DeliveryInv
        <4> QED
          BY <1>t, <2>1, <4>1, ObjectionStays
      <3>10. DeliveryInv'
        BY <1>t, <2>1, <3>2, <3>3, <3>9 DEF DeliveryInv
      <3> QED
        BY <3>5, <3>6, <3>7, <3>8, <3>10 DEF OInv
    <2>4. CASE ~Acceptable(o)
      <3>1. AcceptReturns(o, FALSE) /\ mapBlockIndex' = mapBlockIndex
        BY <1>5, <2>4 DEF StoreOrphan
      <3>2. Objection(o)
        BY <2>2, <2>4, NotAcceptable
      <3>3. \A p \in mapOrphanBlocks :
             /\ p \in mapBlockIndex => p = o
             /\ Prev[p] \in mapBlockIndex =>
                  ~Good(Prev[p]) \/ Prev[p] = o \/ \E i \in DOMAIN job.vWorkQueue : job.vWorkQueue[i] = Prev[p]
        BY <1>t, <2>1 DEF OrphanInv, Storing
      <3>4. QueueInv' /\ FiledInv' /\ OrphanInv' /\ job'.pc \in {"idle", "queue"}
        BY <1>t, <2>1, <2>2, <3>1, <3>3, ReturnsSettle
      <3>5. DeliveryInv'
        BY <1>t, <2>1, <3>1, <3>2, <3>4, ReturnsDelivered
      <3>6. PendingInv'
        BY <1>t, <2>1, <3>1 DEF PendingInv, Good
      <3> QED
        BY <3>4, <3>5, <3>6 DEF OInv
    <2> QED
      BY <2>3, <2>4
  <1>6. CASE NextInQueue
    <2>1. /\ job.pc = "queue" /\ job.vWorkQueue # <<>>
          /\ \A o \in mapOrphanBlocks : Prev[o] # Head(job.vWorkQueue)
          /\ mapOrphanBlocksByPrev' = {o \in mapOrphanBlocksByPrev : Prev[o] # Head(job.vWorkQueue)}
          /\ UNCHANGED <<mapBlockIndex, best, checkpoints, start, delivered, mapOrphanBlocks, setStakeSeenOrphan>>
      BY <1>6 DEF NextInQueue, IInv, JobFollows
    <2>2. PICK t \in Seq(Block) : t = Tail(job.vWorkQueue)
      <3>1. Tail(job.vWorkQueue) \in Seq(Block)
        BY <1>t, <2>1
      <3> QED
        BY <3>1
    <2>3. job'.vWorkQueue = t /\ job'.pc \in {"idle", "queue"} /\ (job'.pc = "idle" => t = <<>>)
      <3>1. CASE t = <<>>
        BY <1>6, <2>2, <3>1 DEF NextInQueue, IdleJob
      <3>2. CASE t # <<>>
        BY <1>6, <1>t, <2>1, <2>2, <3>2 DEF NextInQueue, TypeOK, Job
      <3> QED
        BY <3>1, <3>2
    <2>4. /\ \A i \in DOMAIN t : i + 1 \in DOMAIN job.vWorkQueue /\ t[i] = job.vWorkQueue[i + 1]
          /\ \A i \in DOMAIN job.vWorkQueue :
               job.vWorkQueue[i] = Head(job.vWorkQueue) \/ \E j \in DOMAIN t : t[j] = job.vWorkQueue[i]
      <3> DEFINE q == job.vWorkQueue
      <3>1. /\ DOMAIN q = 1 .. Len(q) /\ Len(q) \in Nat /\ Len(q) # 0 /\ Head(q) = q[1]
            /\ DOMAIN t = 1 .. Len(q) - 1
            /\ \A i \in 1 .. Len(q) - 1 : t[i] = q[i + 1]
        BY <1>t, <2>1, <2>2
      <3> HIDE DEF q
      <3>2. ASSUME NEW i \in DOMAIN q, i # 1 PROVE i - 1 \in DOMAIN t /\ t[i - 1] = q[i]
        BY <3>1, <3>2
      <3>3. \A i \in DOMAIN t : i + 1 \in DOMAIN q /\ t[i] = q[i + 1]
        BY <3>1
      <3>4. \A i \in DOMAIN q : q[i] = Head(q) \/ \E j \in DOMAIN t : t[j] = q[i]
        BY <3>1, <3>2
      <3> QED
        BY <3>3, <3>4 DEF q
    <2>5. QueueInv'
      BY <1>t, <2>1, <2>3, <2>4 DEF QueueInv, Storing
    <2>6. FiledInv'
      BY <1>t, <2>1 DEF FiledInv
    <2>7. OrphanInv'
      <3> SUFFICES ASSUME NEW o \in mapOrphanBlocks
                   PROVE  /\ o \notin mapBlockIndex
                          /\ Prev[o] \in mapBlockIndex =>
                               ~Good(Prev[o]) \/ \E i \in DOMAIN t : t[i] = Prev[o]
        BY <2>1, <2>3 DEF OrphanInv, Good
      <3>1. o \notin mapBlockIndex
        BY <1>t, <2>1 DEF OrphanInv, Storing
      <3>2. ASSUME Prev[o] \in mapBlockIndex, Good(Prev[o]) PROVE \E i \in DOMAIN t : t[i] = Prev[o]
        <4>1. PICK i \in DOMAIN job.vWorkQueue : job.vWorkQueue[i] = Prev[o]
          BY <1>t, <2>1, <3>2 DEF OrphanInv, Storing
        <4> QED
          BY <2>1, <2>4, <4>1
      <3> QED
        BY <3>1, <3>2
    <2>8. PendingInv'
      BY <1>t, <2>1 DEF PendingInv, Good
    <2>9. DeliveryInv'
      BY <1>t, <2>1, <2>3, DeliveryUntouched
    <2> QED
      BY <2>5, <2>6, <2>7, <2>8, <2>9 DEF OInv
  <1>s. Storing => /\ job.block \in mapBlockIndex /\ job.block \in Block
                   /\ IF job.vWorkQueue = <<>> THEN job.block \notin mapOrphanBlocks
                      ELSE job.block \in mapOrphanBlocks /\ Prev[job.block] = Head(job.vWorkQueue)
                   /\ \A o \in mapOrphanBlocks :
                        /\ o \in mapBlockIndex => o = job.block
                        /\ Prev[o] \in mapBlockIndex =>
                             ~Good(Prev[o]) \/ Prev[o] = job.block
                             \/ \E i \in DOMAIN job.vWorkQueue : job.vWorkQueue[i] = Prev[o]
    BY <1>t DEF Storing, IInv, JobFollows, TypeOK, QueueInv, OrphanInv
  <1>7. CASE NewBest
    <2>1. /\ job.pc = "best" /\ Storing
          /\ UNCHANGED <<mapBlockIndex, checkpoints, start, delivered>>
      BY <1>7 DEF NewBest, Storing
    <2>2. CASE job' = [job EXCEPT !.pc = "pending"] /\ UNCHANGED orphans
      <3>1. job'.pc = "pending" /\ job'.block = job.block /\ job'.vWorkQueue = job.vWorkQueue
        BY <1>t, <2>2 DEF TypeOK, Job
      <3>2. QueueInv' /\ FiledInv' /\ OrphanInv'
        BY <1>t, <2>1, <2>2, <3>1, OrphansUntouched DEF Storing
      <3>3. PendingInv'
        BY <1>t, <2>1, <3>1 DEF PendingInv, Good
      <3>4. DeliveryInv'
        BY <1>t, <2>1, <2>2, <3>1, DeliveryUntouched
      <3> QED
        BY <3>2, <3>3, <3>4 DEF OInv
    <2>3. CASE SetBestChainFails(job.block) /\ AcceptReturns(job.block, FALSE)
      <3>1. ~Good(job.block)
        BY <1>s, <2>1, <2>3, FailsBad
      <3>2. QueueInv' /\ FiledInv' /\ OrphanInv' /\ job'.pc \in {"idle", "queue"}
        BY <1>t, <1>s, <2>1, <2>3, <3>1, ReturnsSettle
      <3>3. DeliveryInv'
        BY <1>t, <1>s, <2>1, <2>3, <3>2, ReturnsDelivered
      <3>4. PendingInv'
        BY <1>t, <2>1, <3>1 DEF PendingInv, Good
      <3> QED
        BY <3>2, <3>3, <3>4 DEF OInv
    <2> QED
      BY <1>7, <2>2, <2>3 DEF NewBest
  <1>8. CASE AcceptPendingSyncCheckpoint
    <2> DEFINE c == hashPendingCheckpoint
    <2>1. /\ job.pc = "pending" /\ Storing
          /\ UNCHANGED <<mapBlockIndex, start, delivered, hashSyncCheckpoint>>
      BY <1>8 DEF AcceptPendingSyncCheckpoint, Storing
    <2>2. CASE /\ AcceptReturns(job.block, TRUE)
               /\ \/ c \notin mapBlockIndex /\ hashPendingCheckpoint' = c
                  \/ hashPendingCheckpoint' = None
                  \/ c \in mapBlockIndex /\ SetBestChainFails(c) /\ hashPendingCheckpoint' = c
      <3>1. QueueInv' /\ FiledInv' /\ OrphanInv' /\ job'.pc \in {"idle", "queue"}
        BY <1>t, <1>s, <2>1, <2>2, ReturnsSettle
      <3>2. DeliveryInv'
        BY <1>t, <1>s, <2>1, <2>2, <3>1, ReturnsDelivered
      <3>3. None \notin mapBlockIndex
        BY <1>t, CheckpointAssumption DEF TypeOK
      <3>4. c \in mapBlockIndex /\ SetBestChainFails(c) => ~Good(c)
        BY <1>t, FailsBad DEF TypeOK
      <3>5. PendingInv'
        BY <2>1, <2>2, <3>3, <3>4 DEF PendingInv, Good
      <3> QED
        BY <3>1, <3>2, <3>5 DEF OInv
    <2>3. CASE job' = [job EXCEPT !.pc = "write"] /\ UNCHANGED <<checkpoints, orphans>>
      <3>1. job'.pc = "write" /\ job'.block = job.block /\ job'.vWorkQueue = job.vWorkQueue
        BY <1>t, <2>3 DEF TypeOK, Job
      <3>2. QueueInv' /\ FiledInv' /\ OrphanInv'
        BY <1>t, <2>1, <2>3, <3>1, OrphansUntouched DEF Storing
      <3>3. PendingInv'
        BY <3>1 DEF PendingInv
      <3>4. DeliveryInv'
        BY <1>t, <2>1, <2>3, <3>1, DeliveryUntouched
      <3> QED
        BY <3>2, <3>3, <3>4 DEF OInv
    <2> QED
      BY <1>8, <2>2, <2>3 DEF AcceptPendingSyncCheckpoint
  <1>9. CASE WritePending
    <2>1. /\ job.pc = "write" /\ Storing /\ AcceptReturns(job.block, TRUE)
          /\ UNCHANGED <<mapBlockIndex, delivered, version>>
          /\ hashSyncCheckpoint' = hashPendingCheckpoint /\ hashPendingCheckpoint' = None
          /\ hashPendingCheckpoint \in Block /\ OnPath(hashSyncCheckpoint, hashPendingCheckpoint)
      BY <1>9, <1>t DEF WritePending, WriteSyncCheckpoint, Storing, IInv, JobFollows, TypeOK
    <2>2. QueueInv' /\ FiledInv' /\ OrphanInv' /\ job'.pc \in {"idle", "queue"}
      BY <1>t, <1>s, <2>1, ReturnsSettle
    <2>3. DeliveryInv'
      BY <1>t, <1>s, <2>1, <2>2, ReturnsDelivered
    <2>4. PendingInv'
      BY <1>t, <2>1, CheckpointAssumption DEF PendingInv, TypeOK
    <2> QED
      BY <2>2, <2>3, <2>4 DEF OInv
  <1>10. CASE WriteReceived
    <2>1. /\ job.pc = "adopt" /\ job' = IdleJob
          /\ UNCHANGED <<mapBlockIndex, delivered, version, orphans>>
          /\ hashSyncCheckpoint' = job.block /\ hashPendingCheckpoint' = None
          /\ job.block \in Block /\ OnPath(hashSyncCheckpoint, job.block)
      BY <1>10, <1>t DEF WriteReceived, WriteSyncCheckpoint, IInv, JobFollows, TypeOK
    <2>2. job'.pc = "idle" /\ job'.vWorkQueue = <<>> /\ job.vWorkQueue = <<>>
      BY <1>t, <2>1 DEF IdleJob, QueueInv
    <2>3. QueueInv' /\ FiledInv' /\ OrphanInv'
      BY <1>t, <2>1, <2>2, OrphansUntouched DEF Storing
    <2>4. PendingInv'
      BY <1>t, <2>1, CheckpointAssumption DEF PendingInv, TypeOK
    <2>5. DeliveryInv'
      BY <1>t, <2>1, <2>2, DeliveryUntouched
    <2> QED
      BY <2>3, <2>4, <2>5 DEF OInv
  <1>11. ASSUME NEW v \in DOMAIN Hardened, Restart(v) PROVE OInv'
    <2>1. /\ mapOrphanBlocks' = {} /\ mapOrphanBlocksByPrev' = {} /\ setStakeSeenOrphan' = {}
          /\ delivered' = mapBlockIndex /\ mapBlockIndex' = mapBlockIndex
          /\ hashPendingCheckpoint' = None
      BY <1>11 DEF Restart
    <2>2. job'.vWorkQueue = <<>> /\ job'.pc \in {"idle", "key"}
      BY <1>11 DEF Restart, IdleJob
    <2>3. QueueInv' /\ FiledInv' /\ OrphanInv'
      BY <2>1, <2>2 DEF QueueInv, FiledInv, OrphanInv, Storing
    <2>4. PendingInv'
      BY <1>t, <2>1, CheckpointAssumption DEF PendingInv, TypeOK
    <2>5. DeliveryInv'
      BY <2>1 DEF DeliveryInv
    <2> QED
      BY <2>3, <2>4, <2>5 DEF OInv
  <1>12. CASE WriteCheckpointPubKey
    <2>1. /\ job.pc = "key" /\ UNCHANGED <<mapBlockIndex, best, checkpoints, orphans, delivered, version>>
          /\ job'.pc = "reset" /\ job'.vWorkQueue = job.vWorkQueue
      BY <1>12, <1>t DEF WriteCheckpointPubKey, TypeOK, Job
    <2>2. QueueInv' /\ FiledInv' /\ OrphanInv'
      <3>1. job.vWorkQueue = <<>>
        BY <1>t, <2>1 DEF QueueInv
      <3> QED
        BY <1>t, <2>1, <3>1, OrphansUntouched DEF Storing
    <2>3. PendingInv'
      BY <1>t, <2>1 DEF PendingInv, Good
    <2>4. DeliveryInv'
      BY <1>t, <2>1, DeliveryUntouched
    <2> QED
      BY <2>2, <2>3, <2>4 DEF OInv
  <1>13. CASE ResetSyncCheckpoint
    <2>1. /\ job.pc = "reset" /\ UNCHANGED <<mapBlockIndex, hashSyncCheckpoint, orphans, delivered, version>>
          /\ job'.pc \in {"resetwrite", "stopped"} /\ job'.vWorkQueue = job.vWorkQueue
          /\ hashPendingCheckpoint' = hashPendingCheckpoint \/ hashPendingCheckpoint' \notin mapBlockIndex
      BY <1>13, <1>t DEF ResetSyncCheckpoint, TypeOK, Job
    <2>2. QueueInv' /\ FiledInv' /\ OrphanInv'
      <3>1. job.vWorkQueue = <<>>
        BY <1>t, <2>1 DEF QueueInv
      <3> QED
        BY <1>t, <2>1, <3>1, OrphansUntouched DEF Storing
    <2>3. PendingInv'
      BY <1>t, <2>1 DEF PendingInv, Good
    <2>4. DeliveryInv'
      BY <1>t, <2>1, DeliveryUntouched
    <2> QED
      BY <2>2, <2>3, <2>4 DEF OInv
  <1>14. CASE WriteReset
    <2>1. /\ job.pc = "resetwrite" /\ UNCHANGED <<mapBlockIndex, hashPendingCheckpoint, orphans, delivered, version>>
          /\ job' = IdleJob
      BY <1>14 DEF WriteReset
    <2>2. job'.pc = "idle" /\ job'.vWorkQueue = <<>> /\ job.vWorkQueue = <<>>
      BY <1>t, <2>1 DEF IdleJob, QueueInv
    <2>3. QueueInv' /\ FiledInv' /\ OrphanInv'
      BY <1>t, <2>1, <2>2, OrphansUntouched DEF Storing
    <2>4. PendingInv'
      BY <1>t, <2>1 DEF PendingInv, Good
    <2>5. DeliveryInv'
      BY <1>t, <2>1, <2>2 DEF DeliveryInv
    <2> QED
      BY <2>3, <2>4, <2>5 DEF OInv
  <1>15. CASE UNCHANGED vars
    <2>1. UNCHANGED <<mapBlockIndex, mapOrphanBlocks, mapOrphanBlocksByPrev, setStakeSeenOrphan, job,
                      delivered, version, hashPendingCheckpoint, hashSyncCheckpoint>>
      BY <1>15 DEF vars
    <2>2. QueueInv' /\ FiledInv' /\ OrphanInv' /\ PendingInv'
      BY <1>t, <2>1 DEF QueueInv, FiledInv, OrphanInv, PendingInv, Storing, Good
    <2>3. DeliveryInv'
      BY <1>t, <2>1, DeliveryUntouched
    <2> QED
      BY <2>2, <2>3 DEF OInv
  <1> QED
    BY <1>1, <1>2, <1>3, <1>4, <1>5, <1>6, <1>7, <1>8, <1>9, <1>10, <1>11, <1>12, <1>13, <1>14,
       <1>15 DEF Next, HandlerStep

\* Both invariants hold throughout.
THEOREM OrphanInvariant == Spec => [](IInv /\ OInv)
  BY InitInv, NextInv, InitOInv, NextOInv, PTL DEF Spec

\* Between two messages mapOrphanBlocks and mapOrphanBlocksByPrev agree, no orphan is
\* indexed and none is forgotten: ProcessBlock's work queue takes up every orphan
\* whose parent was indexed, but for the descendants of a bad block.
THEOREM NoOrphanForgotten == Spec => []OrphansSettled
  <1>1. IInv /\ OInv => OrphansSettled
    <2> SUFFICES ASSUME OInv, Idle
                 PROVE  /\ mapOrphanBlocksByPrev = mapOrphanBlocks
                        /\ \A o \in mapOrphanBlocks :
                             o \notin mapBlockIndex /\ (Prev[o] \in mapBlockIndex => ~Good(Prev[o]))
      BY DEF OrphansSettled
    <2>1. job.vWorkQueue = <<>> /\ ~Storing
      BY DEF OInv, QueueInv, Idle, Storing
    <2>2. mapOrphanBlocksByPrev \subseteq mapOrphanBlocks /\ mapOrphanBlocks \subseteq mapOrphanBlocksByPrev
      BY <2>1 DEF OInv, FiledInv
    <2>3. \A o \in mapOrphanBlocks :
            o \notin mapBlockIndex /\ (Prev[o] \in mapBlockIndex => ~Good(Prev[o]))
      BY <2>1 DEF OInv, OrphanInv
    <2> QED
      BY <2>2, <2>3
  <1> QED
    BY <1>1, OrphanInvariant, PTL

\* Between two messages a pending checkpoint whose block is indexed has been adopted
\* or dropped by AcceptPendingSyncCheckpoint, unless its chain is invalid.
THEOREM NoCheckpointForgotten == Spec => []PendingSettled
  <1>1. IInv /\ OInv => PendingSettled
    BY DEF OInv, PendingInv, PendingSettled, Idle
  <1> QED
    BY <1>1, OrphanInvariant, PTL

\* A chain that breaks no rule is indexed once all its blocks have been delivered to
\* ProcessBlock, in any order, among any other blocks and checkpoints.
THEOREM EveryDeliveryCounts == Spec => []DeliveredIndexed
  <1>1. IInv /\ OInv => DeliveredIndexed
    <2> SUFFICES ASSUME IInv, OInv, Idle, NEW b \in Block,
                        Ancestors[b] \subseteq delivered, Unobjectionable(b), b \notin mapBlockIndex
                 PROVE  FALSE
      BY DEF DeliveredIndexed
    <2> DEFINE S == Ancestors[b] \ mapBlockIndex
    <2>1. b \in S /\ S \subseteq Block /\ Genesis \notin S /\ Genesis \in Ancestors[b]
      BY AncestorsType, TreeAssumption DEF IInv, IndexClosed
    <2>2. PICK a \in S : Prev[a] \in mapBlockIndex
      <3> SUFFICES ASSUME \A a \in S : Prev[a] \notin mapBlockIndex PROVE FALSE
        OBVIOUS
      <3>1. S \in PprevClosed
        BY <2>1, AncestorsClosed DEF PprevClosed
      <3>2. Ancestors[b] \subseteq S
        BY <2>1, <3>1, ClosedAncestors
      <3> QED
        BY <2>1, <3>2
    <2>3. a \in Block /\ a # Genesis /\ a \in delivered /\ a \in Ancestors[b]
      BY <2>1
    <2>4. ~Objection(a)
      <3>1. OnPath(hashSyncCheckpoint, a) \/ OnPath(a, hashSyncCheckpoint)
        BY <2>3, AncestorsChain DEF Unobjectionable, OnPath
      <3> QED
        BY <2>3, <3>1 DEF Objection, Unobjectionable
    <2>5. a \in mapOrphanBlocks
      BY <2>3, <2>4 DEF OInv, DeliveryInv
    <2>6. ~Good(Prev[a])
      BY <2>2, <2>5 DEF OInv, OrphanInv, QueueInv, Storing, Idle
    <2>7. Prev[a] \in Ancestors[b] /\ Prev[a] \in Block
      BY <2>3, AncestorsClosed, TreeAssumption DEF PprevClosed
    <2>8. Good(Prev[a])
      BY <2>7, AncestorsTrans DEF Good, Unobjectionable
    <2> QED
      BY <2>6, <2>8
  <1> QED
    BY <1>1, OrphanInvariant, PTL
=============================================================================
