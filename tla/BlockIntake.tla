---------------------------- MODULE BlockIntake ----------------------------
(***************************************************************************)
(* ProcessBlock with its orphan blocks, AcceptBlock, the "checkpoint"      *)
(* message, and the start of the node (main.cpp: ProcessBlock, AcceptBlock,*)
(* AddToBlockIndex, LoadBlockIndex; checkpoints.cpp).                      *)
(*                                                                         *)
(* cs_main is held by every handler.  A handler is split where it commits  *)
(* to the database, because a crash can leave any prefix of the commits.   *)
(* A block and its hash are the same thing; what ConnectBlock does to the  *)
(* transaction index is ChainState's subject.                              *)
(***************************************************************************)
EXTENDS SyncCheckpoint

CONSTANTS
    Stake,          \* Stake[b]: GetProofOfStake, None for proof of work
    Refused,        \* blocks that fail AcceptBlock's own checks (target, time, kernel,
                    \* finality, height in the coinbase)
    Light,          \* pairs <<c, b>>: b has too little work since checkpoint c
    Checkpoint,     \* blocks that the master key signs checkpoints for
    MaxCrash        \* bound: crashes and restarts in a behaviour

ASSUME IntakeAssumption ==
    /\ DOMAIN Stake = Block
    /\ Refused \subseteq Block /\ Light \subseteq Block \X Block /\ Checkpoint \subseteq Block
    /\ DOMAIN Hardened = 0 .. Cardinality(DOMAIN Hardened) - 1 /\ 0 \in DOMAIN Hardened
    /\ MaxCrash \in Nat

VARIABLES
    mapOrphanBlocks,        \* blocks without their parent
    mapOrphanBlocksByPrev,  \* the same, found by hashPrevBlock
    setStakeSeenOrphan,     \* stakes of the orphans
    strCheckpointPubKey,    \* on disk: the version whose master key was stored
    strict,                 \* CheckpointsMode is STRICT (-cppolicy, the default)
    version,                \* the executable's version: its key and hardened checkpoints
    job,                    \* where the running handler stands
    delivered,              \* history: blocks ProcessBlock has had since the start
    resetDone,              \* history: the checkpoint was set under the present key
    crashes

best == <<hashBestChain, dbBest>>
checkpoints == <<hashSyncCheckpoint, hashPendingCheckpoint, hashInvalidCheckpoint>>
orphans == <<mapOrphanBlocks, mapOrphanBlocksByPrev, setStakeSeenOrphan>>
start == <<strCheckpointPubKey, strict, version, resetDone, crashes>>
vars == <<mapBlockIndex, best, checkpoints, orphans, start, job, delivered>>

\* job.pc: idle; best, pending, write: AcceptBlock of job.block after its index
\* entry; queue: between two blocks of vWorkQueue; adopt: ProcessSyncCheckpoint's
\* write; key, reset, resetwrite: LoadBlockIndex; stopped: LoadBlockIndex failed.
IdleJob == [pc |-> "idle", block |-> None, vWorkQueue |-> <<>>]
Idle == job.pc = "idle"

\* Where memory and disk name different best blocks, only the write that follows is
\* modelled, and the restart: what the node does in between has lost its footing.
Sound == hashBestChain = dbBest

Init ==
    /\ mapBlockIndex = {Genesis}
    /\ hashBestChain = Genesis /\ dbBest = Genesis
    /\ hashSyncCheckpoint = Genesis
    /\ hashPendingCheckpoint = IF LastHardened(0) = Genesis THEN None ELSE LastHardened(0)
    /\ hashInvalidCheckpoint = None
    /\ mapOrphanBlocks = {} /\ mapOrphanBlocksByPrev = {} /\ setStakeSeenOrphan = {}
    /\ strCheckpointPubKey = 0 /\ version = 0 /\ strict \in BOOLEAN
    /\ job = IdleJob
    /\ delivered = {Genesis}
    /\ resetDone = TRUE
    /\ crashes = 0
-----------------------------------------------------------------------------
\* setStakeSeen: AddToBlockIndex and LoadBlockIndex fill it from the index.
setStakeSeen == {Stake[b] : b \in mapBlockIndex} \ {None}

\* The deepest ancestor of an orphan that is not an orphan itself.
WantedByOrphan(o) ==
    CHOOSE a \in Ancestors[o] \ mapOrphanBlocks :
        \A c \in Ancestors[o] \ mapOrphanBlocks : OnPath(c, a)

WantedByPendingSyncCheckpoint(b) ==
    /\ hashPendingCheckpoint # None
    /\ \/ b = hashPendingCheckpoint
       \/ /\ hashPendingCheckpoint \in mapOrphanBlocks
          /\ b = WantedByOrphan(hashPendingCheckpoint)

\* "Duplicate stake allowed only when there is orphan child block".
DuplicateStake(b, seen) ==
    /\ Stake[b] \in seen
    /\ \A o \in mapOrphanBlocksByPrev : Prev[o] # b
    /\ ~WantedByPendingSyncCheckpoint(b)

TooLight(b) ==
    /\ Prev[b] # hashBestChain
    /\ ~WantedByPendingSyncCheckpoint(b)
    /\ <<hashSyncCheckpoint, b>> \in Light

\* ProcessBlock's early returns.
Welcome(b) ==
    /\ b \notin mapBlockIndex \cup mapOrphanBlocks
    /\ ~DuplicateStake(b, setStakeSeen)
    /\ ~TooLight(b)

\* AcceptBlock's checks.
Acceptable(b) ==
    /\ b \notin mapBlockIndex /\ Prev[b] \in mapBlockIndex
    /\ b \notin Refused
    /\ CheckHardened(version, b)
    /\ strict => CheckSync(b)

\* AddToBlockIndex up to the commit of the index entry.
AddToBlockIndex(b) ==
    /\ mapBlockIndex' = mapBlockIndex \cup {b}
    /\ job' = [job EXCEPT !.block = b,
                          !.pc = IF nChainTrust[b] > nChainTrust[hashBestChain]
                                 THEN "best" ELSE "pending"]

\* Mutant: only the children of the delivered block are looked up.
AcceptReturnsShallow(b, ok) ==
    IF job.vWorkQueue = <<>>
    THEN /\ job' = IF ok THEN [pc |-> "queue", block |-> None, vWorkQueue |-> <<b>>] ELSE IdleJob
         /\ UNCHANGED orphans
    ELSE /\ job' = [pc |-> "queue", block |-> None, vWorkQueue |-> job.vWorkQueue]
         /\ mapOrphanBlocks' = mapOrphanBlocks \ {b}
         /\ setStakeSeenOrphan' = setStakeSeenOrphan \ {Stake[b]}
         /\ UNCHANGED mapOrphanBlocksByPrev

\* AcceptBlock(b) returns ok: to ProcessBlock, which then starts the work queue,
\* or to the loop of the work queue, which forgets the orphan either way.
AcceptReturns(b, ok) ==
    IF job.vWorkQueue = <<>>
    THEN /\ job' = IF ok THEN [pc |-> "queue", block |-> None, vWorkQueue |-> <<b>>] ELSE IdleJob
         /\ UNCHANGED orphans
    ELSE /\ job' = [pc |-> "queue", block |-> None,
                    vWorkQueue |-> IF ok THEN Append(job.vWorkQueue, b) ELSE job.vWorkQueue]
         /\ mapOrphanBlocks' = mapOrphanBlocks \ {b}
         /\ setStakeSeenOrphan' = setStakeSeenOrphan \ {Stake[b]}
         /\ UNCHANGED mapOrphanBlocksByPrev
-----------------------------------------------------------------------------
Deliver(b) == Idle /\ Sound /\ b # Genesis /\ delivered' = delivered \cup {b}

\* ProcessBlock turns the block away.
RefuseBlock(b) ==
    /\ Deliver(b)
    /\ ~Welcome(b) \/ IF Prev[b] \in mapBlockIndex THEN ~Acceptable(b)
                      ELSE DuplicateStake(b, setStakeSeenOrphan)
    /\ UNCHANGED <<mapBlockIndex, best, checkpoints, orphans, start, job>>

\* Mutant: the orphan is not filed under its parent.
HoldOrphanLoose(b) ==
    /\ Deliver(b)
    /\ Welcome(b) /\ Prev[b] \notin mapBlockIndex /\ ~DuplicateStake(b, setStakeSeenOrphan)
    /\ mapOrphanBlocks' = mapOrphanBlocks \cup {b}
    /\ setStakeSeenOrphan' = setStakeSeenOrphan \cup ({Stake[b]} \ {None})
    /\ UNCHANGED <<mapOrphanBlocksByPrev, mapBlockIndex, best, checkpoints, start, job>>

\* Mutant: the stake of a proof-of-work orphan is noted too.
HoldOrphanAnyStake(b) ==
    /\ Deliver(b)
    /\ Welcome(b) /\ Prev[b] \notin mapBlockIndex /\ ~DuplicateStake(b, setStakeSeenOrphan)
    /\ mapOrphanBlocks' = mapOrphanBlocks \cup {b}
    /\ mapOrphanBlocksByPrev' = mapOrphanBlocksByPrev \cup {b}
    /\ setStakeSeenOrphan' = setStakeSeenOrphan \cup {Stake[b]}
    /\ UNCHANGED <<mapBlockIndex, best, checkpoints, start, job>>

\* ProcessBlock keeps it until its parent comes.
HoldOrphan(b) ==
    /\ Deliver(b)
    /\ Welcome(b) /\ Prev[b] \notin mapBlockIndex /\ ~DuplicateStake(b, setStakeSeenOrphan)
    /\ mapOrphanBlocks' = mapOrphanBlocks \cup {b}
    /\ mapOrphanBlocksByPrev' = mapOrphanBlocksByPrev \cup {b}
    /\ setStakeSeenOrphan' = setStakeSeenOrphan \cup ({Stake[b]} \ {None})
    /\ UNCHANGED <<mapBlockIndex, best, checkpoints, start, job>>

\* ProcessBlock stores it.
StoreBlock(b) ==
    /\ Deliver(b)
    /\ Welcome(b) /\ Acceptable(b)
    /\ AddToBlockIndex(b)
    /\ UNCHANGED <<best, checkpoints, orphans, start>>

\* The work queue: the next orphan that waited for the block at its head.
StoreOrphan(o) ==
    /\ job.pc = "queue" /\ Sound /\ o \in mapOrphanBlocks /\ Prev[o] = Head(job.vWorkQueue)
    /\ IF Acceptable(o) THEN AddToBlockIndex(o) /\ UNCHANGED orphans
       ELSE AcceptReturns(o, FALSE) /\ UNCHANGED mapBlockIndex
    /\ UNCHANGED <<best, checkpoints, start, delivered>>

\* Mutant: the head of the queue stays.
NextInQueueStuck ==
    /\ job.pc = "queue" /\ Sound
    /\ \A o \in mapOrphanBlocks : Prev[o] # Head(job.vWorkQueue)
    /\ mapOrphanBlocksByPrev' = {o \in mapOrphanBlocksByPrev : Prev[o] # Head(job.vWorkQueue)}
    /\ UNCHANGED <<mapBlockIndex, best, checkpoints, start, delivered,
                   mapOrphanBlocks, setStakeSeenOrphan, job>>

\* No orphan waits for it any more.
NextInQueue ==
    /\ job.pc = "queue" /\ Sound
    /\ \A o \in mapOrphanBlocks : Prev[o] # Head(job.vWorkQueue)
    /\ mapOrphanBlocksByPrev' = {o \in mapOrphanBlocksByPrev : Prev[o] # Head(job.vWorkQueue)}
    /\ job' = IF Tail(job.vWorkQueue) = <<>> THEN IdleJob
              ELSE [job EXCEPT !.vWorkQueue = Tail(@)]
    /\ UNCHANGED <<mapBlockIndex, best, checkpoints, start, delivered,
                   mapOrphanBlocks, setStakeSeenOrphan>>

\* Mutant: AcceptBlock returns without a look at the pending checkpoint.
NewBestOnly ==
    /\ job.pc = "best"
    /\ \/ SetBestChain(job.block) /\ AcceptReturns(job.block, TRUE)
       \/ SetBestChainFails(job.block) /\ AcceptReturns(job.block, FALSE) /\ UNCHANGED best
    /\ UNCHANGED <<mapBlockIndex, checkpoints, start, delivered>>

\* AddToBlockIndex: SetBestChain of the new block.
NewBest ==
    /\ job.pc = "best"
    /\ \/ /\ SetBestChain(job.block)
          /\ job' = [job EXCEPT !.pc = "pending"]
          /\ UNCHANGED orphans
       \/ SetBestChainFails(job.block) /\ AcceptReturns(job.block, FALSE) /\ UNCHANGED best
    /\ UNCHANGED <<mapBlockIndex, checkpoints, start, delivered>>

\* AcceptPendingSyncCheckpoint, up to its write.
AcceptPendingSyncCheckpoint ==
    LET c == hashPendingCheckpoint
        known == c \in mapBlockIndex
        valid == known /\ ValidateSyncCheckpoint(c)
        move == valid /\ ~IsInMainChain(c)
    IN  /\ job.pc = "pending" /\ Sound
        /\ \/ ~known /\ AcceptReturns(job.block, TRUE) /\ UNCHANGED <<best, checkpoints>>
           \/ /\ known /\ ~valid
              /\ hashPendingCheckpoint' = None
              /\ hashInvalidCheckpoint' = IF Conflicting(c) THEN c ELSE hashInvalidCheckpoint
              /\ AcceptReturns(job.block, TRUE)
              /\ UNCHANGED <<best, hashSyncCheckpoint>>
           \/ /\ valid
              /\ IF move THEN SetBestChain(c) ELSE UNCHANGED best
              /\ job' = [job EXCEPT !.pc = "write"]
              /\ UNCHANGED <<checkpoints, orphans>>
           \/ /\ move /\ SetBestChainFails(c)
              /\ hashInvalidCheckpoint' = c
              /\ AcceptReturns(job.block, TRUE)
              /\ UNCHANGED <<best, hashSyncCheckpoint, hashPendingCheckpoint>>
        /\ UNCHANGED <<mapBlockIndex, start, delivered>>

\* WriteSyncCheckpoint of checkpoint c, which is pending no longer.
WriteSyncCheckpoint(c) ==
    /\ hashSyncCheckpoint' = c
    /\ hashPendingCheckpoint' = None
    /\ resetDone' = TRUE
    /\ UNCHANGED <<hashInvalidCheckpoint, strCheckpointPubKey, strict, version, crashes>>

WritePending ==
    /\ job.pc = "write"
    /\ WriteSyncCheckpoint(hashPendingCheckpoint)
    /\ AcceptReturns(job.block, TRUE)
    /\ UNCHANGED <<mapBlockIndex, best, delivered>>
-----------------------------------------------------------------------------
\* A "checkpoint" message for c: ProcessSyncCheckpoint, up to its write.
ProcessSyncCheckpoint(c) ==
    LET known == c \in mapBlockIndex
        valid == known /\ ValidateSyncCheckpoint(c)
        move == valid /\ ~IsInMainChain(c)
    IN  /\ Idle /\ Sound
        /\ \/ /\ ~known
              /\ hashPendingCheckpoint' = c
              /\ UNCHANGED <<best, job, hashSyncCheckpoint, hashInvalidCheckpoint>>
           \/ /\ known /\ ~valid
              /\ hashInvalidCheckpoint' = IF Conflicting(c) THEN c ELSE hashInvalidCheckpoint
              /\ UNCHANGED <<best, job, hashSyncCheckpoint, hashPendingCheckpoint>>
           \/ /\ valid
              /\ IF move THEN SetBestChain(c) ELSE UNCHANGED best
              /\ job' = [job EXCEPT !.pc = "adopt", !.block = c]
              /\ UNCHANGED checkpoints
           \/ /\ move /\ SetBestChainFails(c)
              /\ hashInvalidCheckpoint' = c
              /\ UNCHANGED <<best, job, hashSyncCheckpoint, hashPendingCheckpoint>>
        /\ UNCHANGED <<mapBlockIndex, orphans, start, delivered>>

WriteReceived ==
    /\ job.pc = "adopt"
    /\ WriteSyncCheckpoint(job.block)
    /\ job' = IdleJob
    /\ UNCHANGED <<mapBlockIndex, best, orphans, delivered>>
-----------------------------------------------------------------------------
\* The process dies at any point and is started, perhaps as a newer version.
\* LoadBlockIndex reads the disk; orphans and the pending checkpoint are gone.
Restart(v) ==
    /\ crashes < MaxCrash /\ crashes' = crashes + 1
    /\ version' = v
    /\ hashPendingCheckpoint' = None /\ hashInvalidCheckpoint' = None
    /\ mapOrphanBlocks' = {} /\ mapOrphanBlocksByPrev' = {} /\ setStakeSeenOrphan' = {}
    /\ job' = [IdleJob EXCEPT !.pc = IF v = strCheckpointPubKey THEN "idle" ELSE "key"]
    /\ hashBestChain' = dbBest
    /\ delivered' = mapBlockIndex
    /\ resetDone' = (resetDone /\ v = version)
    /\ UNCHANGED <<mapBlockIndex, dbBest, hashSyncCheckpoint, strCheckpointPubKey, strict>>

\* LoadBlockIndex stores the new master key ...
WriteCheckpointPubKey ==
    /\ job.pc = "key"
    /\ strCheckpointPubKey' = version
    /\ job' = [job EXCEPT !.pc = "reset"]
    /\ UNCHANGED <<mapBlockIndex, best, checkpoints, orphans, delivered,
                   strict, version, resetDone, crashes>>

\* ... and ResetSyncCheckpoint goes to the last hardened checkpoint ...
ResetSyncCheckpoint ==
    LET h == LastHardened(version)
        known == h \in mapBlockIndex
        move == known /\ ~IsInMainChain(h)
    IN  /\ job.pc = "reset"
        /\ \/ /\ IF move THEN SetBestChain(h) ELSE UNCHANGED best
              /\ hashPendingCheckpoint' = IF known THEN hashPendingCheckpoint ELSE h
              /\ job' = [job EXCEPT !.pc = "resetwrite"]
           \/ /\ move /\ SetBestChainFails(h)
              /\ job' = [job EXCEPT !.pc = "stopped"]
              /\ UNCHANGED <<best, hashPendingCheckpoint>>
        /\ UNCHANGED <<mapBlockIndex, hashSyncCheckpoint, hashInvalidCheckpoint, orphans,
                       start, delivered>>

\* ... and writes the last one in the best chain.
WriteReset ==
    /\ job.pc = "resetwrite"
    /\ \E h \in Block :
         /\ IsHighest(h, {g \in Hardened[version] \cap mapBlockIndex : IsInMainChain(g)})
         /\ hashSyncCheckpoint' = h
    /\ resetDone' = TRUE
    /\ job' = IdleJob
    /\ UNCHANGED <<mapBlockIndex, best, hashPendingCheckpoint, hashInvalidCheckpoint,
                   orphans, delivered, strCheckpointPubKey, strict, version, crashes>>

HandlerStep ==
    \/ \E o \in Block : StoreOrphan(o)
    \/ NextInQueue \/ NewBest \/ AcceptPendingSyncCheckpoint \/ WritePending \/ WriteReceived
    \/ WriteCheckpointPubKey \/ ResetSyncCheckpoint \/ WriteReset

Next ==
    \/ \E b \in Block : RefuseBlock(b) \/ HoldOrphan(b) \/ StoreBlock(b)
    \/ \E c \in Checkpoint : ProcessSyncCheckpoint(c)
    \/ HandlerStep
    \/ \E v \in {w \in DOMAIN Hardened : w >= version} : Restart(v)

Spec == Init /\ [][Next]_vars

\* A handler that has begun runs on: it holds cs_main and waits for nobody.
FairSpec == Spec /\ WF_vars(HandlerStep)
-----------------------------------------------------------------------------
Job == [pc : {"idle", "queue", "best", "pending", "write", "adopt", "key", "reset",
              "resetwrite", "stopped"},
        block : Block \cup {None}, vWorkQueue : Seq(Block)]

\* Type invariant.
TypeOK ==
    /\ mapBlockIndex \subseteq Block /\ hashBestChain \in mapBlockIndex /\ dbBest \in mapBlockIndex
    /\ hashSyncCheckpoint \in mapBlockIndex
    /\ hashPendingCheckpoint \in Block \cup {None} /\ hashInvalidCheckpoint \in Block \cup {None}
    /\ mapOrphanBlocks \subseteq Block /\ mapOrphanBlocksByPrev \subseteq Block
    /\ setStakeSeenOrphan \subseteq {Stake[b] : b \in Block} \ {None}
    /\ strCheckpointPubKey \in DOMAIN Hardened /\ version \in DOMAIN Hardened
    /\ job \in Job
    /\ delivered \subseteq Block
    /\ strict \in BOOLEAN /\ resetDone \in BOOLEAN
    /\ crashes \in 0 .. MaxCrash

\* The best chain goes through the synchronized checkpoint, in memory and on
\* disk, whatever order the blocks and the checkpoint messages come in and
\* wherever the process dies.  (Two exceptions: it died while it reset the
\* checkpoint for a new master key; the master signed a chain it rejects.)
SyncOnBestChain ==
    Idle /\ strict /\ resetDone /\ Good(hashSyncCheckpoint)
    => OnPath(hashSyncCheckpoint, hashBestChain) /\ OnPath(hashSyncCheckpoint, dbBest)

\* "only descendant of current sync-checkpoint is allowed": the checkpoint moves
\* to a descendant, except when a new master key resets it.
CheckpointAdvances ==
    [][\/ hashSyncCheckpoint' = hashSyncCheckpoint
       \/ OnPath(hashSyncCheckpoint, hashSyncCheckpoint')
       \/ job.pc = "resetwrite"]_vars

\* Between two messages the two orphan maps agree, no orphan is indexed, and an
\* orphan whose parent is indexed has an invalid chain: none is forgotten.
OrphansSettled ==
    Idle => /\ mapOrphanBlocksByPrev = mapOrphanBlocks
            /\ \A o \in mapOrphanBlocks :
                 /\ o \notin mapBlockIndex
                 /\ Prev[o] \in mapBlockIndex => ~Good(Prev[o])

\* A chain that breaks no rule ...
Unobjectionable(b) ==
    /\ Good(b) /\ OnPath(hashSyncCheckpoint, b)
    /\ \A a \in Ancestors[b] \ {Genesis} :
         /\ a \notin Refused /\ CheckHardened(version, a)
         /\ \A c \in Block : <<c, a>> \notin Light
         /\ Stake[a] # None => \A d \in delivered \ {a} : Stake[d] # Stake[a]

\* ... is indexed once all its blocks have been delivered, in any order, among
\* any other blocks and checkpoints.
DeliveredIndexed ==
    Idle => \A b \in Block : Ancestors[b] \subseteq delivered /\ Unobjectionable(b)
                             => b \in mapBlockIndex

\* A pending checkpoint whose block is indexed has been adopted or dropped, unless
\* its chain is invalid.
PendingSettled ==
    Idle /\ hashPendingCheckpoint \in mapBlockIndex => ~Good(hashPendingCheckpoint)

\* Every handler ends, the work queue of orphans included.
HandlerEnds == [](~Idle => <>(job.pc \in {"idle", "stopped"} \/ ~Sound))

\* "if checkpoint master key changed must reset sync-checkpoint" (main.cpp): a
\* running node's checkpoint is a hardened one or was set under the present key.
KeyChangeResets == Idle => resetDone \/ hashSyncCheckpoint \in Hardened[version]
-----------------------------------------------------------------------------
\* The inductive invariant behind SyncOnBestChain.  The index holds the parents of
\* its blocks ...
IndexClosed == Genesis \in mapBlockIndex /\ mapBlockIndex \in PprevClosed

\* ... the disk has every good block of the chain that memory calls best ...
DiskFollows == \A d \in Ancestors[hashBestChain] : Good(d) => OnPath(d, dbBest)

\* ... a handler that is about to move the best chain or the checkpoint moves it
\* to a descendant of the checkpoint ...
JobFollows ==
    /\ job.pc \in {"best", "pending", "write", "adopt"} => job.block \in mapBlockIndex
    /\ job.pc = "best" /\ strict => OnPath(hashSyncCheckpoint, job.block)
    /\ job.pc = "queue" => job.vWorkQueue # <<>>
    /\ job.pc = "write" =>
         /\ hashPendingCheckpoint \in mapBlockIndex
         /\ OnPath(hashSyncCheckpoint, hashPendingCheckpoint)
         /\ OnPath(hashPendingCheckpoint, hashBestChain)
    /\ job.pc = "adopt" =>
         OnPath(hashSyncCheckpoint, job.block) /\ OnPath(job.block, hashBestChain)

\* ... a start that resets the checkpoint has not done so before ...
ResetPending == job.pc \in {"key", "reset", "resetwrite", "stopped"} => ~resetDone
KeyPending == strCheckpointPubKey # version => job.pc = "key"

\* ... and the best chain goes through the checkpoint, inside handlers too.
SyncInBest ==
    strict /\ resetDone /\ Good(hashSyncCheckpoint) => OnPath(hashSyncCheckpoint, hashBestChain)

IInv == /\ TypeOK /\ IndexClosed /\ DiskFollows /\ JobFollows
        /\ ResetPending /\ KeyPending /\ SyncInBest
=============================================================================
