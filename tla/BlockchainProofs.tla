---------------------------- MODULE BlockchainProofs ----------------------------
(***************************************************************************)
(* What the goroutines of a node can rely on, for any number of nodes and  *)
(* blocks, whatever links there are: the service solves the block in       *)
(* solving and verifies blocks that are unverified, no block a node knows  *)
(* beats its longest chain, and none leaves an account overdrawn.          *)
(*                                                                         *)
(* Balances are the result of a fold over transactions: what is said of it *)
(* is proved by induction, with lemma Induction.                           *)
(***************************************************************************)
EXTENDS Blockchain, SequenceTheorems, FiniteSetTheorems, WellFoundedInduction, TLAPS

OfNodes(f) == f = [p \in Nodes |-> f[p]]
IsSeq(s) == s \in Seq(ToSet(s))
IsBlock(b) ==
    /\ b = [hash |-> b.hash, prev |-> b.prev, depth |-> b.depth,
            transactions |-> b.transactions, balances |-> b.balances]
    /\ b.hash \in Nat /\ b.depth \in Nat

\* What is mined is a block.
MiningShape ==
    /\ OfNodes(currentBlock) /\ OfNodes(solvingBlock) /\ OfNodes(miner)
    /\ \A p \in Nodes :
          /\ IsBlock(currentBlock[p])
          /\ solvingBlock[p] # NoBlock => IsBlock(solvingBlock[p])
    /\ DOMAIN hashed \subseteq Hashes

\* What a node knows or its clerk has are blocks, and it knows what the clerk stored.
ChainShape ==
    /\ OfNodes(blocks) /\ OfNodes(unverifiedBlocks) /\ OfNodes(clerk)
    /\ longestChainHash \in [Nodes -> Nat] /\ longestChainDepth \in [Nodes -> Nat]
    /\ \A p \in Nodes :
          /\ \A b \in blocks[p] \cup unverifiedBlocks[p] : IsBlock(b)
          /\ clerk[p] = Working(clerk[p].at, clerk[p].item, clerk[p].mined)
          /\ clerk[p].at # "idle" => IsBlock(clerk[p].item)
          /\ clerk[p].at \notin {"idle", "store"} => Known(blocks[p], clerk[p].item.hash)

\* The listener of p for q has put a block in unverifiedBlocks, and is to send it.
Sending(p, q) == listener[p][q].at = "relay"

\* What is on its way as a block is one.
Carries(lines) ==
    /\ OfNodes(lines)
    /\ \A p \in Nodes : OfNodes(lines[p])
    /\ \A p, q \in Nodes :
          /\ IsSeq(lines[p][q])
          /\ \A i \in DOMAIN lines[p][q] :
                lines[p][q][i].type = "BLOCK_SOLVED" => IsBlock(lines[p][q][i].item)

ListenerShape ==
    /\ OfNodes(listener)
    /\ \A p \in Nodes :
          /\ OfNodes(listener[p])
          /\ \A q \in Nodes : Sending(p, q) => IsBlock(listener[p][q].item)

ServiceShape ==
    /\ OfNodes(service)
    /\ \A p \in Nodes :
          /\ service[p] = [solve |-> service[p].solve, verify |-> service[p].verify]
          /\ IsSeq(service[p].verify)

GossipShape == Carries(channel) /\ ListenerShape /\ ServiceShape

Shape == MiningShape /\ ChainShape /\ GossipShape

\* While the miner fills a block none is being solved, and what the service is asked
\* to solve is what is then published.
Mines(place, solving, solve, filled) ==
    /\ place \in {"parent", "depth", "balance", "hash", "publish"} => solving = NoBlock
    /\ place = "publish" => solve = filled.hash
    /\ solve # 0 /\ solving # NoBlock => solving.hash = solve

MiningInv ==
    \A p \in Nodes : Mines(miner[p], solvingBlock[p], service[p].solve, currentBlock[p])

\* Of each block in unverified the service is asked once, or will be by a listener.
Verifies(asked, unverified, listeners) ==
    /\ \A i \in DOMAIN asked :
          /\ Known(unverified, asked[i].hash)
          /\ \A j \in DOMAIN asked : asked[i].hash = asked[j].hash => i = j
    /\ \A q \in Nodes : listeners[q].at = "relay" =>
          /\ Known(unverified, listeners[q].item.hash)
          /\ \A i \in DOMAIN asked : asked[i].hash # listeners[q].item.hash
          /\ \A r \in Nodes :
                listeners[r].at = "relay" /\ listeners[r].item.hash = listeners[q].item.hash
                    => q = r

VerifyInv ==
    \A p \in Nodes : Verifies(service[p].verify, unverifiedBlocks[p], listener[p])

\* b does not beat a chain that ends in hash and is so deep.
Beaten(b, hash, depth) == b.depth < depth \/ (b.depth = depth /\ hash <= b.hash)

\* No block beats the longest chain but the one the clerk is comparing, and while the
\* clerk has set the hash and not the depth, that one is deeper than all.
Longest(place, item, set, hash, depth) ==
    /\ place = "deepen" => depth < item.depth /\ hash = item.hash
    /\ \A b \in set :
          \/ Beaten(b, hash, depth)
          \/ place \in {"compare", "deepen"} /\ b = item
          \/ place = "deepen" /\ b.depth <= depth

ChainInv ==
    \A p \in Nodes :
        Longest(clerk[p].at, clerk[p].item, blocks[p],
                longestChainHash[p], longestChainDepth[p])

------------------------------------------------------------------------------
(* The operators                                                           *)

LEMMA Tight ==
  ASSUME NEW S, NEW s \in Seq(S)
  PROVE  /\ IsSeq(s) /\ Len(s) \in Nat /\ DOMAIN s = 1..Len(s)
         /\ s \in [1..Len(s) -> S]
<1>1. /\ s \in [1..Len(s) -> S] /\ Len(s) \in Nat /\ DOMAIN s = 1..Len(s)
  BY LenProperties
<1>2. s \in [1..Len(s) -> ToSet(s)]
  BY <1>1, SMT DEF ToSet
<1>3. s \in Seq(ToSet(s))
  BY <1>1, <1>2, SeqDef
<1> QED BY <1>1, <1>3 DEF IsSeq

LEMMA Appended ==
  ASSUME NEW s, IsSeq(s), NEW x
  PROVE  /\ IsSeq(Append(s, x))
         /\ DOMAIN Append(s, x) = DOMAIN s \cup {Len(s) + 1}
         /\ Len(s) + 1 \notin DOMAIN s
         /\ Append(s, x)[Len(s) + 1] = x
         /\ \A i \in DOMAIN s : Append(s, x)[i] = s[i]
<1> DEFINE S == ToSet(s) \cup {x}
<1>1. s \in Seq(S)
  BY SeqDef DEF IsSeq
<1>2. Append(s, x) \in Seq(S)
  BY <1>1, AppendProperties
<1>3. Len(s) \in Nat /\ DOMAIN s = 1..Len(s)
  BY <1>1, LenProperties
<1>4. /\ Len(Append(s, x)) = Len(s) + 1
      /\ \A i \in 1..Len(s) : Append(s, x)[i] = s[i]
      /\ Append(s, x)[Len(s) + 1] = x
  BY <1>1, AppendProperties
<1>5. IsSeq(Append(s, x)) /\ DOMAIN Append(s, x) = 1..Len(Append(s, x))
  BY <1>2, Tight
<1> QED BY <1>3, <1>4, <1>5

LEMMA Rested ==
  ASSUME NEW s, IsSeq(s), s # <<>>
  PROVE  /\ IsSeq(Tail(s))
         /\ 1 \in DOMAIN s /\ Head(s) = s[1]
         /\ \A i \in DOMAIN Tail(s) :
               i \in Nat /\ i + 1 \in DOMAIN s /\ i + 1 # 1 /\ Tail(s)[i] = s[i + 1]
<1>1. /\ s \in Seq(ToSet(s)) /\ Len(s) \in Nat /\ DOMAIN s = 1..Len(s)
  BY Tight DEF IsSeq
<1>2. Len(s) # 0
  BY <1>1, EmptySeq
<1>3. /\ \A i \in 1..Len(Tail(s)) : Tail(s)[i] = s[i + 1]
      /\ Head(s) = s[1] /\ Tail(s) \in Seq(ToSet(s))
      /\ Len(Tail(s)) = Len(s) - 1
  BY <1>1, HeadTailProperties
<1>4. IsSeq(Tail(s)) /\ DOMAIN Tail(s) = 1..Len(Tail(s))
  BY <1>3, Tight
<1>5. 1 \in DOMAIN s /\ \A i \in DOMAIN Tail(s) : i \in Nat /\ i + 1 \in DOMAIN s /\ i + 1 # 1
  BY <1>1, <1>2, <1>3, <1>4
<1> QED BY <1>3, <1>4, <1>5

\* A multicast adds a line to some of the channels of p.
LEMMA Multicasts ==
  ASSUME NEW lines, Carries(lines), NEW p \in Nodes, NEW line,
         line.type = "BLOCK_SOLVED" => IsBlock(line.item)
  PROVE  Carries(Multicast(lines, p, line))
<1> DEFINE M == Multicast(lines, p, line)
<1>1. OfNodes(lines) /\ \A r \in Nodes : OfNodes(lines[r])
  BY DEF Carries
<1>2. OfNodes(M) /\ \A r \in Nodes : OfNodes(M[r])
  BY <1>1 DEF Multicast, OfNodes
<1>3. ASSUME NEW r \in Nodes, NEW q \in Nodes
      PROVE  /\ IsSeq(M[r][q])
             /\ \A i \in DOMAIN M[r][q] :
                   M[r][q][i].type = "BLOCK_SOLVED" => IsBlock(M[r][q][i].item)
  <2> DEFINE s == lines[r][q]
  <2>1. M[r][q] = s \/ M[r][q] = Append(s, line)
    BY <1>1 DEF Multicast, OfNodes
  <2>2. IsSeq(s) /\ \A i \in DOMAIN s : s[i].type = "BLOCK_SOLVED" => IsBlock(s[i].item)
    BY DEF Carries
  <2>3. CASE M[r][q] = s
    BY <2>2, <2>3
  <2>4. CASE M[r][q] = Append(s, line)
    <3> HIDE DEF s, M
    <3> QED BY <2>2, <2>4, Appended
  <2> QED BY <2>1, <2>3, <2>4
<1> HIDE DEF M
<1>4. Carries(M)
  BY <1>2, <1>3 DEF Carries
<1> QED BY <1>4 DEF M

\* What a listener does not take from its channel stays there.
LEMMA Rests ==
  ASSUME Carries(channel), NEW p \in Nodes, NEW q \in Nodes, channel[q][p] # <<>>
  PROVE  /\ Carries(Rest(p, q))
         /\ Head(channel[q][p]).type = "BLOCK_SOLVED" => IsBlock(Heard(p, q))
<1> DEFINE M == Rest(p, q)
<1>1. OfNodes(channel) /\ \A r \in Nodes : OfNodes(channel[r])
  BY DEF Carries
<1>2. OfNodes(M) /\ \A r \in Nodes : OfNodes(M[r])
  BY <1>1 DEF Rest, OfNodes
<1>3. ASSUME NEW r \in Nodes, NEW t \in Nodes
      PROVE  /\ IsSeq(M[r][t])
             /\ \A i \in DOMAIN M[r][t] :
                   M[r][t][i].type = "BLOCK_SOLVED" => IsBlock(M[r][t][i].item)
  <2> DEFINE s == channel[r][t]
  <2>1. M[r][t] = s \/ (s # <<>> /\ M[r][t] = Tail(s))
    BY <1>1 DEF Rest, OfNodes
  <2>2. IsSeq(s) /\ \A i \in DOMAIN s : s[i].type = "BLOCK_SOLVED" => IsBlock(s[i].item)
    BY DEF Carries
  <2>3. CASE M[r][t] = s
    BY <2>2, <2>3
  <2>4. CASE s # <<>> /\ M[r][t] = Tail(s)
    <3> HIDE DEF s, M
    <3> QED BY <2>2, <2>4, Rested
  <2> QED BY <2>1, <2>3, <2>4
<1>4. Head(channel[q][p]).type = "BLOCK_SOLVED" => IsBlock(Heard(p, q))
  <2> DEFINE s == channel[q][p]
  <2>1. IsSeq(s) /\ \A i \in DOMAIN s : s[i].type = "BLOCK_SOLVED" => IsBlock(s[i].item)
    BY DEF Carries
  <2>2. 1 \in DOMAIN s /\ Head(s) = s[1]
    <3> HIDE DEF s
    <3> QED BY <2>1, Rested DEF s
  <2> QED BY <2>1, <2>2 DEF Heard
<1> HIDE DEF M
<1>5. Carries(M)
  BY <1>2, <1>3 DEF Carries
<1> QED BY <1>4, <1>5 DEF M

\* A field other than its hash and its depth may change in a block.
LEMMA Altered ==
  ASSUME NEW b, IsBlock(b), NEW x
  PROVE  /\ IsBlock([b EXCEPT !.prev = x])
         /\ IsBlock([b EXCEPT !.transactions = x])
         /\ IsBlock([b EXCEPT !.balances = x])
         /\ [b EXCEPT !.prev = x].hash = b.hash
         /\ [b EXCEPT !.prev = x].depth = b.depth
BY SMTT(30) DEF IsBlock

------------------------------------------------------------------------------
(* Who changes what                                                        *)

\* What is mined is changed by the miner and by two steps of the clerk.
LEMMA MiningChanges ==
  ASSUME Next, ~UNCHANGED mining
  PROVE  \E p \in Nodes :
            \/ Collect(p) \/ ReadParent(p) \/ ReadDepth(p)
            \/ calculateAccountBalances(p) \/ Solve(p) \/ Publish(p) \/ Renew(p)
            \/ SetParent(p) \/ FinishMined(p)
<1>1. PICK p \in Nodes :
        \/ MinerStep(p) \/ Announce(p)
        \/ Solved(p) \/ SolvedUnexpectedly(p) \/ ClerkStep(p)
        \/ \E q \in Nodes : <<q, p>> \in Links /\ ListenerStep(p, q)
        \/ MapFault(p)
  BY DEF Next
<1>2. ~Die(p)
  BY DEF Die
<1>3. ~Announce(p) /\ ~Solved(p) /\ ~SolvedUnexpectedly(p) /\ ~MapFault(p) /\ ~RenewNil(p)
  BY <1>2 DEF Announce, Solved, SolvedUnexpectedly, MapFault, RenewNil
<1>4. ~(\E q \in Nodes : ListenerStep(p, q))
  BY DEF ListenerStep, Drop, HearTransaction, Enter, HearBlock, RelayBlock, besideListener
<1>5. ~VerifyFails(p) /\ ~blockVerified(p) /\ ~Store(p) /\ ~FinishVerified(p)
  BY <1>2 DEF VerifyFails, blockVerified, Store, FinishVerified
<1>6. ~SetHash(p) /\ ~KeepChain(p) /\ ~SetDepth(p)
  BY DEF SetHash, KeepChain, SetDepth
<1> QED BY <1>1, <1>3, <1>4, <1>5, <1>6 DEF MinerStep, ClerkStep

\* What a node knows is changed by the clerk, and by listeners that hear of blocks.
LEMMA ChainChanges ==
  ASSUME Next, ~UNCHANGED <<chain, longest, clerk>>
  PROVE  \E p \in Nodes :
            \/ Solved(p) \/ blockVerified(p) \/ Store(p) \/ SetHash(p) \/ KeepChain(p)
            \/ SetDepth(p) \/ SetParent(p) \/ FinishMined(p) \/ FinishVerified(p)
            \/ \E q \in Nodes : HearBlock(p, q)
<1>1. PICK p \in Nodes :
        \/ MinerStep(p) \/ Announce(p)
        \/ Solved(p) \/ SolvedUnexpectedly(p) \/ ClerkStep(p)
        \/ \E q \in Nodes : <<q, p>> \in Links /\ ListenerStep(p, q)
        \/ MapFault(p)
  BY DEF Next
<1>2. ~Die(p)
  BY DEF Die
<1>3. ~Announce(p) /\ ~SolvedUnexpectedly(p) /\ ~MapFault(p) /\ ~RenewNil(p)
  BY <1>2 DEF Announce, SolvedUnexpectedly, MapFault, RenewNil
<1>4. ~MinerStep(p)
  BY <1>3 DEF MinerStep, Collect, ReadParent, ReadDepth, calculateAccountBalances, Solve,
              Publish, Renew, besideMiner
<1>5. ~VerifyFails(p)
  BY DEF VerifyFails, besideMiner
<1>6. ASSUME NEW q \in Nodes
      PROVE  ~Drop(p, q) /\ ~HearTransaction(p, q) /\ ~Enter(p, q) /\ ~RelayBlock(p, q)
  BY DEF Drop, HearTransaction, Enter, RelayBlock, besideListener
<1> QED BY <1>1, <1>3, <1>4, <1>5, <1>6 DEF ClerkStep, ListenerStep

\* What is gossiped is changed by those who hear and send.
LEMMA GossipChanges ==
  ASSUME Next, ~UNCHANGED <<listener, channel, service>>
  PROVE  \E p \in Nodes :
            \/ Solve(p) \/ Announce(p) \/ Solved(p) \/ VerifyFails(p) \/ blockVerified(p)
            \/ FinishMined(p)
            \/ \E q \in Nodes : ListenerStep(p, q)
<1>1. PICK p \in Nodes :
        \/ MinerStep(p) \/ Announce(p)
        \/ Solved(p) \/ SolvedUnexpectedly(p) \/ ClerkStep(p)
        \/ \E q \in Nodes : <<q, p>> \in Links /\ ListenerStep(p, q)
        \/ MapFault(p)
  BY DEF Next
<1>2. ~Die(p)
  BY DEF Die
<1>3. ~SolvedUnexpectedly(p) /\ ~MapFault(p) /\ ~RenewNil(p)
  BY <1>2 DEF SolvedUnexpectedly, MapFault, RenewNil
<1>4. MinerStep(p) => Solve(p)
  BY <1>3 DEF MinerStep, Collect, ReadParent, ReadDepth, calculateAccountBalances,
              Publish, Renew, besideMiner
<1>5. ~Store(p) /\ ~SetHash(p) /\ ~KeepChain(p) /\ ~SetDepth(p) /\ ~SetParent(p)
      /\ ~FinishVerified(p)
  BY DEF Store, SetHash, KeepChain, SetDepth, SetParent, FinishVerified, besideClerk
<1> QED BY <1>1, <1>3, <1>4, <1>5 DEF ClerkStep

------------------------------------------------------------------------------
(* The shape of what nodes have                                            *)

LEMMA InitShape == Init => Shape
<1> SUFFICES ASSUME Init PROVE Shape
  OBVIOUS
<1>1. \A p \in Nodes : IsBlock(currentBlock[p]) /\ solvingBlock[p] = NoBlock
  BY DEF Init, Fresh, IsBlock
<1>2. OfNodes(currentBlock) /\ OfNodes(solvingBlock) /\ OfNodes(miner)
  BY DEF Init, OfNodes
<1>3. DOMAIN hashed \subseteq Hashes
  BY DEF Init
<1>4. MiningShape
  BY <1>1, <1>2, <1>3 DEF MiningShape
<1>5. /\ OfNodes(blocks) /\ OfNodes(unverifiedBlocks) /\ OfNodes(clerk)
      /\ longestChainHash \in [Nodes -> Nat] /\ longestChainDepth \in [Nodes -> Nat]
  BY DEF Init, OfNodes
<1>6. \A p \in Nodes : /\ blocks[p] = {} /\ unverifiedBlocks[p] = {} /\ clerk[p].at = "idle"
                       /\ clerk[p] = Working(clerk[p].at, clerk[p].item, clerk[p].mined)
  BY DEF Init, Resting, Working
<1>7. ChainShape
  BY <1>5, <1>6 DEF ChainShape
<1>8. IsSeq(<<>>) /\ DOMAIN <<>> = {}
  <2>1. <<>> \in Seq({}) /\ Len(<<>>) = 0
    BY EmptySeq
  <2>2. IsSeq(<<>>) /\ DOMAIN <<>> = 1..0
    BY <2>1, Tight
  <2> QED BY <2>2
<1>9. Carries(channel)
  <2>1. \A p, q \in Nodes : channel[p][q] = <<>>
    BY DEF Init
  <2>2. OfNodes(channel) /\ \A p \in Nodes : OfNodes(channel[p])
    BY DEF Init, OfNodes
  <2> QED BY <1>8, <2>1, <2>2 DEF Carries
<1>10. \A p, q \in Nodes : ~Sending(p, q)
  BY DEF Init, Sending, Idle, At
<1>11. \A p \in Nodes :
          /\ OfNodes(listener[p])
          /\ service[p] = [solve |-> service[p].solve, verify |-> service[p].verify]
          /\ service[p].verify = <<>>
  BY DEF Init, OfNodes
<1>12. OfNodes(listener) /\ OfNodes(service)
  BY DEF Init, OfNodes
<1> QED BY <1>4, <1>7, <1>8, <1>9, <1>10, <1>11, <1>12
   DEF GossipShape, ListenerShape, ServiceShape, Shape

LEMMA MiningShapeStep ==
  ASSUME Shape, [Next]_vars
  PROVE  MiningShape'
<1>1. CASE UNCHANGED mining
  BY <1>1 DEF Shape, MiningShape, mining, OfNodes, IsBlock
<1>2. CASE ~UNCHANGED mining
  <2>1. Next
    BY <1>2 DEF vars, mining
  <2>2. PICK p \in Nodes :
            \/ Collect(p) \/ ReadParent(p) \/ ReadDepth(p)
            \/ calculateAccountBalances(p) \/ Solve(p) \/ Publish(p) \/ Renew(p)
            \/ SetParent(p) \/ FinishMined(p)
    BY <1>2, <2>1, MiningChanges
  <2>3. /\ OfNodes(currentBlock) /\ OfNodes(solvingBlock) /\ OfNodes(miner)
        /\ DOMAIN hashed \subseteq Hashes
    BY DEF Shape, MiningShape
  <2>4. \A r \in Nodes : /\ IsBlock(currentBlock[r])
                         /\ solvingBlock[r] # NoBlock => IsBlock(solvingBlock[r])
    BY DEF Shape, MiningShape
  <2>5. longestChainHash[p] \in Nat /\ longestChainDepth[p] \in Nat
    BY DEF Shape, ChainShape
  <2>6. MaxBlocks \in Nat
    BY ChainAssumption
  \* A step leaves of the blocks of others what they are.
  <2> DEFINE b == currentBlock[p]
             s == solvingBlock[p]
  <2>7. IsBlock(b) /\ (s # NoBlock => IsBlock(s))
    BY <2>4
  <2>8. SUFFICES /\ OfNodes(currentBlock') /\ OfNodes(solvingBlock') /\ OfNodes(miner')
                 /\ IsBlock(currentBlock'[p])
                 /\ solvingBlock'[p] # NoBlock => IsBlock(solvingBlock'[p])
                 /\ \A r \in Nodes : r # p => /\ currentBlock'[r] = currentBlock[r]
                                              /\ solvingBlock'[r] = solvingBlock[r]
                 /\ DOMAIN hashed' \subseteq Hashes
    BY <2>4 DEF MiningShape, IsBlock
  <2>9. CASE Collect(p)
    <3>1. UNCHANGED <<solvingBlock, hashed>>
      BY <2>9 DEF Collect
    <3>2. OfNodes(miner')
      BY <2>9, <2>3 DEF Collect, MinerMove, OfNodes
    <3>3. currentBlock' = [currentBlock EXCEPT ![p] =
              [b EXCEPT !.transactions = b.transactions \cup transactionsBuff[p]]]
      BY <2>9 DEF Collect
    <3> HIDE DEF b, s
    <3>4. IsBlock([b EXCEPT !.transactions = b.transactions \cup transactionsBuff[p]])
      BY <2>7, Altered
    <3> QED BY <2>3, <2>7, <3>1, <3>2, <3>3, <3>4 DEF s, OfNodes
  <2>10. CASE ReadParent(p)
    <3>1. UNCHANGED <<solvingBlock, hashed>>
      BY <2>10 DEF ReadParent
    <3>2. OfNodes(miner')
      BY <2>10, <2>3 DEF ReadParent, MinerMove, OfNodes
    <3>3. currentBlock' = [currentBlock EXCEPT ![p] = [b EXCEPT !.prev = longestChainHash[p]]]
      BY <2>10 DEF ReadParent
    <3> HIDE DEF b, s
    <3>4. IsBlock([b EXCEPT !.prev = longestChainHash[p]])
      BY <2>7, Altered
    <3> QED BY <2>3, <2>7, <3>1, <3>2, <3>3, <3>4 DEF s, OfNodes
  <2>11. CASE ReadDepth(p)
    <3>1. UNCHANGED <<solvingBlock, hashed>>
      BY <2>11 DEF ReadDepth
    <3>2. OfNodes(miner')
      BY <2>11, <2>3 DEF ReadDepth, MinerMove, OfNodes
    <3>3. currentBlock' = [currentBlock EXCEPT ![p] =
              [b EXCEPT !.depth = longestChainDepth[p] + 1]]
      BY <2>11 DEF ReadDepth
    <3> HIDE DEF b, s
    <3>4. IsBlock([b EXCEPT !.depth = longestChainDepth[p] + 1])
      BY <2>5, <2>7 DEF IsBlock
    <3> QED BY <2>3, <2>7, <3>1, <3>2, <3>3, <3>4 DEF s, OfNodes
  <2>12. CASE calculateAccountBalances(p)
    <3>1. UNCHANGED <<solvingBlock, hashed>>
      BY <2>12 DEF calculateAccountBalances
    <3>2. OfNodes(miner')
      BY <2>12, <2>3 DEF calculateAccountBalances, MinerMove, OfNodes
    <3>3. \E new, balances : currentBlock' = [currentBlock EXCEPT
              ![p].transactions = new, ![p].balances = balances]
      BY <2>12 DEF calculateAccountBalances
    <3>4. PICK new, balances : currentBlock' = [currentBlock EXCEPT
              ![p].transactions = new, ![p].balances = balances]
      BY <3>3
    <3> DEFINE c == [b EXCEPT !.transactions = new]
    <3>5. currentBlock' = [currentBlock EXCEPT ![p] = [c EXCEPT !.balances = balances]]
      BY <2>3, <3>4 DEF OfNodes
    <3> HIDE DEF b, s
    <3>6. IsBlock(c)
      BY <2>7, Altered
    <3> HIDE DEF c
    <3>7. IsBlock([c EXCEPT !.balances = balances])
      BY <3>6, Altered
    <3> QED BY <2>3, <2>7, <3>1, <3>2, <3>5, <3>7 DEF s, OfNodes
  <2>13. CASE Solve(p)
    <3>1. UNCHANGED solvingBlock
      BY <2>13 DEF Solve
    <3>2. OfNodes(miner')
      BY <2>13, <2>3 DEF Solve, MinerMove, OfNodes
    <3>3. PICK h \in blockHash(Content(currentBlock[p])) :
             /\ DOMAIN hashed' = DOMAIN hashed \cup {h}
             /\ currentBlock' = [currentBlock EXCEPT ![p] = [b EXCEPT !.hash = h]]
      BY <2>13 DEF Solve
    <3>4. h \in Hashes
      BY <2>3, <3>3 DEF blockHash
    <3>5. DOMAIN hashed' \subseteq Hashes /\ h \in Nat
      BY <2>3, <2>6, <3>3, <3>4 DEF Hashes
    <3> HIDE DEF b, s
    <3>6. IsBlock([b EXCEPT !.hash = h])
      BY <2>7, <3>5 DEF IsBlock
    <3> QED BY <2>3, <2>7, <3>1, <3>2, <3>3, <3>5, <3>6 DEF s, OfNodes
  <2>14. CASE Publish(p)
    <3>1. UNCHANGED <<currentBlock, hashed>>
      BY <2>14 DEF Publish
    <3>2. OfNodes(miner')
      BY <2>14, <2>3 DEF Publish, MinerMove, OfNodes
    <3>3. solvingBlock' = [solvingBlock EXCEPT ![p] = b]
      BY <2>14 DEF Publish
    <3> HIDE DEF b, s
    <3> QED BY <2>3, <2>7, <3>1, <3>2, <3>3 DEF b, OfNodes
  <2>15. CASE Renew(p)
    <3>1. UNCHANGED <<solvingBlock, hashed>>
      BY <2>15 DEF Renew
    <3>2. OfNodes(miner')
      BY <2>15, <2>3 DEF Renew, MinerMove, OfNodes
    <3>3. s # NoBlock /\ currentBlock' = [currentBlock EXCEPT ![p] = Fresh(s.hash, s.depth + 1)]
      BY <2>15 DEF Renew
    <3> HIDE DEF b, s
    <3>4. IsBlock(Fresh(s.hash, s.depth + 1))
      BY <2>7, <3>3 DEF IsBlock, Fresh
    <3> QED BY <2>3, <2>7, <3>1, <3>2, <3>3, <3>4 DEF s, OfNodes
  <2>16. CASE SetParent(p)
    <3> DEFINE x == clerk[p].item.hash
    <3>1. UNCHANGED <<miner, hashed>>
      BY <2>16 DEF SetParent, besideClerk
    <3>2. currentBlock' = [currentBlock EXCEPT ![p] = [b EXCEPT !.prev = x]]
      BY <2>16 DEF SetParent
    <3>3. \/ UNCHANGED solvingBlock
          \/ s # NoBlock /\ solvingBlock' = [solvingBlock EXCEPT ![p] = [s EXCEPT !.prev = x]]
      BY <2>16 DEF SetParent
    <3> HIDE DEF b, s, x
    <3>4. IsBlock([b EXCEPT !.prev = x]) /\ (s # NoBlock => IsBlock([s EXCEPT !.prev = x]))
      BY <2>7, Altered
    <3>5. CASE UNCHANGED solvingBlock
      BY <2>3, <2>7, <3>1, <3>2, <3>4, <3>5 DEF s, OfNodes
    <3>6. CASE s # NoBlock /\ solvingBlock' = [solvingBlock EXCEPT ![p] = [s EXCEPT !.prev = x]]
      BY <2>3, <2>7, <3>1, <3>2, <3>4, <3>6 DEF OfNodes
    <3> QED BY <3>3, <3>5, <3>6
  <2>17. CASE FinishMined(p)
    <3>1. UNCHANGED <<currentBlock, miner, hashed>>
      BY <2>17 DEF FinishMined, besideClerk
    <3>2. solvingBlock' = [solvingBlock EXCEPT ![p] = NoBlock]
      BY <2>17 DEF FinishMined
    <3> QED BY <2>3, <2>7, <3>1, <3>2 DEF OfNodes
  <2> QED BY <2>2, <2>9, <2>10, <2>11, <2>12, <2>13, <2>14, <2>15, <2>16, <2>17
<1> QED BY <1>1, <1>2

\* What Put does to a set of blocks, and Block finds in one.
LEMMA Puts ==
  ASSUME NEW set, NEW b
  PROVE  /\ Known(Put(set, b), b.hash)
         /\ \A h : Known(set, h) => Known(Put(set, b), h)
         /\ \A c \in Put(set, b) : c \in set \/ c = b
BY DEF Known, Put

LEMMA Finds ==
  ASSUME NEW set, NEW h, Known(set, h)
  PROVE  Block(set, h) \in set /\ Block(set, h).hash = h
BY DEF Known, Block

\* The clerk keeps its block until it rests.
LEMMA ClerkMoves ==
  ASSUME ChainShape, NEW p \in Nodes, NEW from, NEW to, ClerkMove(p, from, to)
  PROVE  /\ OfNodes(clerk')
         /\ clerk[p].at = from
         /\ clerk'[p] = Working(to, clerk[p].item, clerk[p].mined)
         /\ \A r \in Nodes : r # p => clerk'[r] = clerk[r]
<1>1. OfNodes(clerk) /\ clerk[p] = Working(clerk[p].at, clerk[p].item, clerk[p].mined)
  BY DEF ChainShape
<1>2. clerk[p].at = from /\ clerk' = [clerk EXCEPT ![p] = [clerk[p] EXCEPT !.at = to]]
  BY DEF ClerkMove
<1>3. [clerk[p] EXCEPT !.at = to] = Working(to, clerk[p].item, clerk[p].mined)
  BY <1>1 DEF Working
<1> QED BY <1>1, <1>2, <1>3 DEF OfNodes

LEMMA ChainShapeStep ==
  ASSUME Shape, [Next]_vars
  PROVE  ChainShape'
<1>1. CASE UNCHANGED <<chain, longest, clerk>>
  BY <1>1 DEF Shape, ChainShape, chain, longest, OfNodes, IsBlock, Working, Known
<1>2. CASE ~UNCHANGED <<chain, longest, clerk>>
  <2>1. Next
    BY <1>2 DEF vars
  <2>2. PICK p \in Nodes :
            \/ Solved(p) \/ blockVerified(p) \/ Store(p) \/ SetHash(p) \/ KeepChain(p)
            \/ SetDepth(p) \/ SetParent(p) \/ FinishMined(p) \/ FinishVerified(p)
            \/ \E q \in Nodes : HearBlock(p, q)
    BY <1>2, <2>1, ChainChanges
  <2>3. /\ OfNodes(blocks) /\ OfNodes(unverifiedBlocks) /\ OfNodes(clerk)
        /\ longestChainHash \in [Nodes -> Nat] /\ longestChainDepth \in [Nodes -> Nat]
    BY DEF Shape, ChainShape
  <2> DEFINE own(r) ==
        /\ \A b \in blocks[r] \cup unverifiedBlocks[r] : IsBlock(b)
        /\ clerk[r] = Working(clerk[r].at, clerk[r].item, clerk[r].mined)
        /\ clerk[r].at # "idle" => IsBlock(clerk[r].item)
        /\ clerk[r].at \notin {"idle", "store"} => Known(blocks[r], clerk[r].item.hash)
      new(c) ==
        /\ \A b \in blocks'[p] \cup unverifiedBlocks'[p] : IsBlock(b)
        /\ c = Working(c.at, c.item, c.mined)
        /\ c.at # "idle" => IsBlock(c.item)
        /\ c.at \notin {"idle", "store"} => Known(blocks'[p], c.item.hash)
  <2>4. \A r \in Nodes : own(r)
    BY DEF Shape, ChainShape
  <2>5. SUFFICES /\ OfNodes(blocks') /\ OfNodes(unverifiedBlocks') /\ OfNodes(clerk')
                 /\ longestChainHash' \in [Nodes -> Nat]
                 /\ longestChainDepth' \in [Nodes -> Nat]
                 /\ \A r \in Nodes : r # p =>
                       /\ blocks'[r] = blocks[r] /\ unverifiedBlocks'[r] = unverifiedBlocks[r]
                       /\ clerk'[r] = clerk[r]
                 /\ new(clerk'[p])
    <3>1. ASSUME NEW r \in Nodes
          PROVE  /\ \A b \in blocks'[r] \cup unverifiedBlocks'[r] : IsBlock(b)
                 /\ clerk'[r] = Working(clerk'[r].at, clerk'[r].item, clerk'[r].mined)
                 /\ clerk'[r].at # "idle" => IsBlock(clerk'[r].item)
                 /\ clerk'[r].at \notin {"idle", "store"} =>
                       Known(blocks'[r], clerk'[r].item.hash)
      <4>1. CASE r = p
        BY <2>5, <4>1
      <4>2. CASE r # p
        BY <2>4, <2>5, <4>2
      <4> QED BY <4>1, <4>2
    <3> HIDE DEF new, own
    <3>2. (\A r \in Nodes :
              /\ \A b \in blocks[r] \cup unverifiedBlocks[r] : IsBlock(b)
              /\ clerk[r] = Working(clerk[r].at, clerk[r].item, clerk[r].mined)
              /\ clerk[r].at # "idle" => IsBlock(clerk[r].item)
              /\ clerk[r].at \notin {"idle", "store"} => Known(blocks[r], clerk[r].item.hash))'
      BY <3>1 DEF IsBlock, Working, Known
    <3>3. (/\ OfNodes(blocks) /\ OfNodes(unverifiedBlocks) /\ OfNodes(clerk)
           /\ longestChainHash \in [Nodes -> Nat] /\ longestChainDepth \in [Nodes -> Nat])'
      BY <2>5 DEF OfNodes
    <3> QED BY <3>2, <3>3 DEF ChainShape
  <2>6. own(p)
    BY <2>4
  <2>7. /\ solvingBlock[p] # NoBlock => IsBlock(solvingBlock[p])
        /\ ChainShape
    BY DEF Shape, MiningShape
  <2>8. CASE Solved(p)
    <3> DEFINE c == Working("store", solvingBlock[p], TRUE)
    <3>1. UNCHANGED <<chain, longest>> /\ clerk' = [clerk EXCEPT ![p] = c]
      BY <2>8 DEF Solved
    <3>2. IsBlock(c.item) /\ c.at = "store" /\ c = Working(c.at, c.item, c.mined)
      BY <2>7, <2>8 DEF Solved, Expected, Working
    <3> HIDE DEF c
    <3>3. OfNodes(clerk') /\ clerk'[p] = c /\ \A r \in Nodes : r # p => clerk'[r] = clerk[r]
      BY <2>3, <3>1 DEF OfNodes
    <3> QED BY <2>3, <2>6, <3>1, <3>2, <3>3 DEF chain, longest
  <2>9. CASE blockVerified(p)
    <3> DEFINE hash == Head(service[p].verify).hash
               b == Block(unverifiedBlocks[p], hash)
               c == Working("store", b, FALSE)
               left == {x \in unverifiedBlocks[p] : x.hash # hash}
    <3>1. ~Die(p)
      BY <1>2 DEF Die
    <3>2. /\ Known(unverifiedBlocks[p], hash)
          /\ clerk' = [clerk EXCEPT ![p] = c]
          /\ unverifiedBlocks' = [unverifiedBlocks EXCEPT ![p] = left]
          /\ UNCHANGED <<longest, blocks>>
      BY <2>9, <3>1 DEF blockVerified
    <3>3. b \in unverifiedBlocks[p]
      <4> HIDE DEF hash
      <4> QED BY <3>2, Finds
    <3>4. IsBlock(b)
      BY <2>6, <3>3
    <3> HIDE DEF hash, b
    <3>5. IsBlock(c.item) /\ c.at = "store" /\ c = Working(c.at, c.item, c.mined)
      BY <3>4 DEF Working
    <3> HIDE DEF c
    <3>6. OfNodes(clerk') /\ clerk'[p] = c /\ \A r \in Nodes : r # p => clerk'[r] = clerk[r]
      BY <2>3, <3>2 DEF OfNodes
    <3>7. /\ OfNodes(unverifiedBlocks') /\ unverifiedBlocks'[p] = left
          /\ \A r \in Nodes : r # p => unverifiedBlocks'[r] = unverifiedBlocks[r]
      BY <2>3, <3>2 DEF OfNodes
    <3> QED BY <2>3, <2>6, <3>2, <3>5, <3>6, <3>7 DEF longest
  <2>10. CASE Store(p)
    <3> DEFINE b == clerk[p].item
    <3>1. /\ ClerkMove(p, "store", "compare")
          /\ blocks' = [blocks EXCEPT ![p] = Put(blocks[p], b)]
          /\ UNCHANGED <<longest, unverifiedBlocks>>
      BY <2>10 DEF Store
    <3>2. /\ OfNodes(clerk') /\ clerk[p].at = "store"
          /\ clerk'[p] = Working("compare", b, clerk[p].mined)
          /\ \A r \in Nodes : r # p => clerk'[r] = clerk[r]
      BY <2>7, <3>1, ClerkMoves
    <3>3. /\ OfNodes(blocks') /\ blocks'[p] = Put(blocks[p], b)
          /\ \A r \in Nodes : r # p => blocks'[r] = blocks[r]
      BY <2>3, <3>1 DEF OfNodes
    <3>4. IsBlock(b)
      BY <2>6, <3>2
    <3> HIDE DEF b
    <3>5. Known(blocks'[p], b.hash) /\ \A c \in blocks'[p] : IsBlock(c)
      BY <2>6, <3>3, <3>4, Puts
    <3>6. new(clerk'[p])
      BY <2>6, <3>1, <3>2, <3>4, <3>5 DEF Working
    <3> QED BY <2>3, <3>1, <3>2, <3>3, <3>6 DEF longest
  <2>11. CASE SetHash(p) \/ KeepChain(p) \/ SetDepth(p)
    <3> DEFINE b == clerk[p].item
    <3>1. /\ UNCHANGED chain
          /\ longestChainHash' \in [Nodes -> Nat] /\ longestChainDepth' \in [Nodes -> Nat]
      <4>1. clerk[p].at # "idle"
        BY <2>11 DEF SetHash, KeepChain, SetDepth, ClerkMove
      <4>2. b.hash \in Nat /\ b.depth \in Nat
        BY <2>6, <4>1 DEF IsBlock
      <4> HIDE DEF b
      <4> QED BY <2>3, <2>11, <4>2 DEF SetHash, KeepChain, SetDepth, longest, b
    <3>2. PICK from \in {"compare", "deepen"}, to \in {"deepen", "parent", "done"} :
             ClerkMove(p, from, to)
      BY <2>11 DEF SetHash, KeepChain, SetDepth
    <3>3. /\ OfNodes(clerk') /\ clerk[p].at = from
          /\ clerk'[p] = Working(to, b, clerk[p].mined)
          /\ \A r \in Nodes : r # p => clerk'[r] = clerk[r]
      BY <2>7, <3>2, ClerkMoves
    <3>4. IsBlock(b) /\ Known(blocks[p], b.hash)
      BY <2>6, <3>2, <3>3
    <3> HIDE DEF b
    <3>5. new(clerk'[p])
      BY <2>6, <3>1, <3>3, <3>4 DEF Working, chain
    <3> QED BY <2>3, <3>1, <3>3, <3>5 DEF chain
  <2>12. CASE SetParent(p)
    <3> DEFINE b == clerk[p].item
               s == solvingBlock[p]
               altered == [s EXCEPT !.prev = b.hash]
    <3>1. /\ ClerkMove(p, "parent", "done")
          /\ UNCHANGED <<longest, unverifiedBlocks>>
          /\ \/ UNCHANGED blocks
             \/ s # NoBlock /\ blocks' = [blocks EXCEPT ![p] =
                                            IF s \in blocks[p] THEN Put(blocks[p], altered)
                                                               ELSE blocks[p]]
      BY <2>12 DEF SetParent
    <3>2. /\ OfNodes(clerk') /\ clerk[p].at = "parent"
          /\ clerk'[p] = Working("done", b, clerk[p].mined)
          /\ \A r \in Nodes : r # p => clerk'[r] = clerk[r]
      BY <2>7, <3>1, ClerkMoves
    <3>3. IsBlock(b) /\ Known(blocks[p], b.hash)
      BY <2>6, <3>2
    <3>4. /\ OfNodes(blocks') /\ \A r \in Nodes : r # p => blocks'[r] = blocks[r]
          /\ \/ blocks'[p] = blocks[p]
             \/ s # NoBlock /\ blocks'[p] = Put(blocks[p], altered)
      BY <2>3, <3>1 DEF OfNodes
    <3> HIDE DEF b
    <3>5. s # NoBlock => IsBlock(altered)
      <4> HIDE DEF s
      <4> QED BY <2>7, Altered DEF s
    <3> HIDE DEF s, altered
    <3>6. Known(blocks'[p], b.hash) /\ \A c \in blocks'[p] : IsBlock(c)
      <4>1. CASE blocks'[p] = blocks[p]
        BY <2>6, <3>3, <4>1
      <4>2. CASE s # NoBlock /\ blocks'[p] = Put(blocks[p], altered)
        BY <2>6, <3>3, <3>5, <4>2, Puts
      <4> QED BY <3>4, <4>1, <4>2
    <3>7. new(clerk'[p])
      BY <2>6, <3>1, <3>2, <3>3, <3>6 DEF Working
    <3> QED BY <2>3, <3>1, <3>2, <3>4, <3>7 DEF longest
  <2>13. CASE FinishMined(p) \/ FinishVerified(p)
    <3>1. UNCHANGED <<chain, longest>> /\ clerk' = [clerk EXCEPT ![p] = Resting]
      BY <2>13 DEF FinishMined, FinishVerified
    <3>2. Resting.at = "idle" /\ Resting = Working(Resting.at, Resting.item, Resting.mined)
      BY DEF Resting, Working
    <3>3. OfNodes(clerk') /\ clerk'[p] = Resting /\ \A r \in Nodes : r # p => clerk'[r] = clerk[r]
      BY <2>3, <3>1 DEF OfNodes
    <3> QED BY <2>3, <2>6, <3>1, <3>2, <3>3 DEF chain, longest
  <2>14. CASE \E q \in Nodes : HearBlock(p, q)
    <3>0. PICK q \in Nodes : HearBlock(p, q)
      BY <2>14
    <3> DEFINE b == Heard(p, q)
    <3>1. /\ unverifiedBlocks' = [unverifiedBlocks EXCEPT ![p] = unverifiedBlocks[p] \cup {b}]
          /\ UNCHANGED <<longest, blocks, clerk>>
          /\ channel[q][p] # <<>> /\ Head(channel[q][p]).type = "BLOCK_SOLVED"
      BY <3>0 DEF HearBlock, Hear
    <3>2. IsBlock(b)
      <4>1. Carries(channel)
        BY DEF Shape, GossipShape
      <4> QED BY <3>1, <4>1, Rests
    <3> HIDE DEF b
    <3>3. /\ OfNodes(unverifiedBlocks') /\ unverifiedBlocks'[p] = unverifiedBlocks[p] \cup {b}
          /\ \A r \in Nodes : r # p => unverifiedBlocks'[r] = unverifiedBlocks[r]
      BY <2>3, <3>1 DEF OfNodes
    <3> QED BY <2>3, <2>6, <3>1, <3>2, <3>3 DEF longest
  <2> QED BY <2>2, <2>8, <2>9, <2>10, <2>11, <2>12, <2>13, <2>14
<1> QED BY <1>1, <1>2

\* A listener is set to send a block only when it has heard one.
LEMMA ListenerStays ==
  ASSUME ListenerShape, NEW p \in Nodes, NEW q \in Nodes, NEW x,
         listener' = [listener EXCEPT ![p][q] = x],
         x.at = "relay" => IsBlock(x.item)
  PROVE  /\ ListenerShape'
         /\ listener'[p][q] = x
         /\ \A r, t \in Nodes : r # p \/ t # q => listener'[r][t] = listener[r][t]
<1>1. OfNodes(listener) /\ \A r \in Nodes : OfNodes(listener[r])
  BY DEF ListenerShape
<1>2. OfNodes(listener') /\ \A r \in Nodes : OfNodes(listener'[r])
  BY <1>1 DEF OfNodes
<1>3. /\ listener'[p][q] = x
      /\ \A r, t \in Nodes : r # p \/ t # q => listener'[r][t] = listener[r][t]
  BY <1>1 DEF OfNodes
<1>4. \A r, t \in Nodes : listener[r][t].at = "relay" => IsBlock(listener[r][t].item)
  BY DEF ListenerShape, Sending
<1>5. \A r, t \in Nodes : listener'[r][t].at = "relay" => IsBlock(listener'[r][t].item)
  BY <1>3, <1>4
<1>6. (\A r \in Nodes :
          /\ OfNodes(listener[r])
          /\ \A t \in Nodes : Sending(r, t) => IsBlock(listener[r][t].item))'
  BY <1>2, <1>5 DEF Sending, OfNodes, IsBlock
<1>7. OfNodes(listener)'
  BY <1>2 DEF OfNodes
<1> QED BY <1>3, <1>6, <1>7 DEF ListenerShape

\* The service is asked to solve, or to verify one block more or one less.
LEMMA ServiceStays ==
  ASSUME ServiceShape, NEW p \in Nodes, NEW solve, NEW verify, IsSeq(verify),
         service' = [service EXCEPT ![p] = [solve |-> solve, verify |-> verify]]
  PROVE  /\ ServiceShape'
         /\ service'[p].solve = solve /\ service'[p].verify = verify
         /\ \A r \in Nodes : r # p => service'[r] = service[r]
<1>1. OfNodes(service)
  BY DEF ServiceShape
<1>2. /\ service'[p] = [solve |-> solve, verify |-> verify]
      /\ OfNodes(service')
      /\ \A r \in Nodes : r # p => service'[r] = service[r]
  BY <1>1 DEF OfNodes
<1>3. \A r \in Nodes :
          /\ service[r] = [solve |-> service[r].solve, verify |-> service[r].verify]
          /\ IsSeq(service[r].verify)
  BY DEF ServiceShape
<1>4. ASSUME NEW r \in Nodes
      PROVE  /\ service'[r] = [solve |-> service'[r].solve, verify |-> service'[r].verify]
             /\ IsSeq(service'[r].verify)
  <2>1. CASE r = p
    BY <1>2, <2>1
  <2>2. CASE r # p
    BY <1>2, <1>3, <2>2
  <2> QED BY <2>1, <2>2
<1>5. (\A r \in Nodes :
          /\ service[r] = [solve |-> service[r].solve, verify |-> service[r].verify]
          /\ IsSeq(service[r].verify))'
  BY <1>4 DEF IsSeq
<1>6. OfNodes(service)'
  BY <1>2 DEF OfNodes
<1> QED BY <1>2, <1>5, <1>6 DEF ServiceShape

\* One field of what p is owed changes.
LEMMA Owed ==
  ASSUME ServiceShape, NEW p \in Nodes
  PROVE  /\ IsSeq(service[p].verify)
         /\ \A x : [service EXCEPT ![p].solve = x] =
               [service EXCEPT ![p] = [solve |-> x, verify |-> service[p].verify]]
         /\ \A x : [service EXCEPT ![p].verify = x] =
               [service EXCEPT ![p] = [solve |-> service[p].solve, verify |-> x]]
<1>1. /\ OfNodes(service) /\ IsSeq(service[p].verify)
      /\ service[p] = [solve |-> service[p].solve, verify |-> service[p].verify]
  BY DEF ServiceShape
<1>2. ASSUME NEW x
      PROVE  /\ [service[p] EXCEPT !.solve = x] = [solve |-> x, verify |-> service[p].verify]
             /\ [service[p] EXCEPT !.verify = x] = [solve |-> service[p].solve, verify |-> x]
  BY <1>1
<1> QED BY <1>1, <1>2

LEMMA GossipShapeStep ==
  ASSUME Shape, [Next]_vars
  PROVE  GossipShape'
<1> USE DEF GossipShape
<1>1. CASE UNCHANGED <<listener, channel, service>>
  <2>1. Carries(channel) /\ ListenerShape /\ ServiceShape
    BY DEF Shape
  <2>2. Carries(channel)'
    BY <1>1, <2>1 DEF Carries, OfNodes, IsSeq, IsBlock
  <2>3. ListenerShape' /\ ServiceShape'
    BY <1>1, <2>1 DEF ListenerShape, ServiceShape, Sending, OfNodes, IsSeq, IsBlock
  <2> QED BY <2>2, <2>3
<1>2. CASE ~UNCHANGED <<listener, channel, service>>
  <2>1. Next
    BY <1>2 DEF vars
  <2>2. PICK p \in Nodes :
            \/ Solve(p) \/ Announce(p) \/ Solved(p) \/ VerifyFails(p) \/ blockVerified(p)
            \/ FinishMined(p)
            \/ \E q \in Nodes : ListenerStep(p, q)
    BY <1>2, <2>1, GossipChanges
  <2>3. Carries(channel) /\ ListenerShape /\ ServiceShape
    BY DEF Shape
  <2>4. UNCHANGED listener => ListenerShape'
    BY <2>3 DEF ListenerShape, Sending, OfNodes, IsBlock
  <2>5. UNCHANGED service => ServiceShape'
    BY <2>3 DEF ServiceShape, OfNodes, IsSeq
  <2>6. Carries(channel') => Carries(channel)'
    BY DEF Carries, OfNodes, IsSeq, IsBlock
  <2>7. CASE Solve(p) \/ Solved(p)
    <3>1. PICK x : service' = [service EXCEPT ![p].solve = x]
      BY <2>7 DEF Solve, Solved
    <3>2. UNCHANGED <<listener, channel>>
      BY <2>7 DEF Solve, Solved, besideMiner
    <3>3. ServiceShape'
      <4> DEFINE verify == service[p].verify
      <4>1. IsSeq(verify) /\ service' = [service EXCEPT ![p] = [solve |-> x, verify |-> verify]]
        BY <2>3, <3>1, Owed
      <4> HIDE DEF verify
      <4> QED BY <2>3, <4>1, ServiceStays
    <3> QED BY <2>3, <2>4, <2>6, <3>2, <3>3
  <2>8. CASE VerifyFails(p) \/ blockVerified(p)
    <3>1. ~Die(p)
      BY <1>2 DEF Die
    <3>2. /\ service[p].verify # <<>> /\ UNCHANGED <<listener, channel>>
          /\ service' = [service EXCEPT ![p].verify = Tail(service[p].verify)]
      BY <2>8, <3>1 DEF VerifyFails, blockVerified, Answered, besideMiner
    <3>3. IsSeq(Tail(service[p].verify))
      BY <2>3, <3>2, Owed, Rested
    <3>4. ServiceShape'
      <4> DEFINE solve == service[p].solve
                 verify == Tail(service[p].verify)
      <4>1. IsSeq(verify) /\ service' = [service EXCEPT ![p] = [solve |-> solve, verify |-> verify]]
        BY <2>3, <3>2, <3>3, Owed
      <4> HIDE DEF solve, verify
      <4> QED BY <2>3, <4>1, ServiceStays
    <3> QED BY <2>3, <2>4, <2>6, <3>2, <3>4
  <2>9. CASE Announce(p)
    <3>1. UNCHANGED <<listener, service>>
      BY <2>9 DEF Announce
    <3>2. PICK line : line.type = "TRANSACTION" /\ channel' = Multicast(channel, p, line)
      BY <2>9 DEF Announce, Line
    <3>3. Carries(channel')
      BY <2>3, <3>2, Multicasts
    <3> QED BY <2>4, <2>5, <2>6, <3>1, <3>3
  <2>10. CASE FinishMined(p)
    <3> DEFINE b == Block(blocks[p], clerk[p].item.hash)
               line == Line("BLOCK_SOLVED", b)
    <3>1. /\ UNCHANGED <<listener, service>> /\ clerk[p].at = "done"
          /\ channel' = Multicast(channel, p, line)
      BY <2>10 DEF FinishMined, besideClerk
    <3>2. Known(blocks[p], clerk[p].item.hash) /\ \A x \in blocks[p] : IsBlock(x)
      BY <3>1 DEF Shape, ChainShape
    <3>3. IsBlock(b)
      BY <3>2, Finds
    <3> HIDE DEF b
    <3>4. line.item = b
      BY DEF Line
    <3> HIDE DEF line
    <3>5. Carries(channel')
      BY <2>3, <3>1, <3>3, <3>4, Multicasts
    <3> QED BY <2>4, <2>5, <2>6, <3>1, <3>5
  <2>11. ASSUME NEW q \in Nodes, ListenerStep(p, q)
         PROVE  GossipShape'
    <3> DEFINE x == Heard(p, q)
               y == listener[p][q].item
    <3>1. channel[q][p] # <<>> =>
             /\ Carries(Rest(p, q))
             /\ Head(channel[q][p]).type = "BLOCK_SOLVED" => IsBlock(x)
      BY <2>3, Rests
    <3>2. CASE Drop(p, q)
      <4>1. channel[q][p] # <<>> /\ channel' = Rest(p, q) /\ UNCHANGED <<listener, service>>
        BY <3>2 DEF Drop, Hear
      <4> QED BY <2>4, <2>5, <2>6, <3>1, <4>1
    <3>3. CASE HearTransaction(p, q)
      <4>1. /\ channel[q][p] # <<>> /\ UNCHANGED service
            /\ channel' = Multicast(Rest(p, q), p, Line("TRANSACTION", x))
            /\ listener' = [listener EXCEPT ![p][q] = At("enter", x)]
        BY <3>3 DEF HearTransaction, Hear
      <4>2. Line("TRANSACTION", x).type # "BLOCK_SOLVED" /\ At("enter", x).at # "relay"
        BY DEF Line, At
      <4>3. ListenerShape'
        BY <2>3, <4>1, <4>2, ListenerStays
      <4>4. Carries(channel')
        BY <3>1, <4>1, <4>2, Multicasts
      <4> QED BY <2>5, <2>6, <4>1, <4>3, <4>4
    <3>4. CASE Enter(p, q)
      <4>1. UNCHANGED <<channel, service>> /\ listener' = [listener EXCEPT ![p][q] = Idle]
        BY <3>4 DEF Enter
      <4>2. Idle.at # "relay"
        BY DEF Idle, At
      <4>3. ListenerShape'
        BY <2>3, <4>1, <4>2, ListenerStays
      <4> QED BY <2>3, <2>5, <2>6, <4>1, <4>3
    <3>5. CASE HearBlock(p, q)
      <4>1. /\ channel[q][p] # <<>> /\ Head(channel[q][p]).type = "BLOCK_SOLVED"
            /\ channel' = Rest(p, q) /\ UNCHANGED service
            /\ listener' = [listener EXCEPT ![p][q] = At("relay", x)]
        BY <3>5 DEF HearBlock, Hear
      <4>2. At("relay", x).item = x
        BY DEF At
      <4>3. ListenerShape'
        BY <2>3, <3>1, <4>1, <4>2, ListenerStays
      <4> QED BY <2>5, <2>6, <3>1, <4>1, <4>3
    <3>6. CASE RelayBlock(p, q)
      <4>1. /\ Sending(p, q)
            /\ channel' = Multicast(channel, p, Line("BLOCK_SOLVED", y))
            /\ listener' = [listener EXCEPT ![p][q] = Idle]
            /\ service' = [service EXCEPT ![p].verify = Append(service[p].verify, y)]
        BY <3>6 DEF RelayBlock, Sending
      <4>2. IsBlock(y)
        BY <2>3, <4>1 DEF ListenerShape
      <4> HIDE DEF y
      <4>3. Line("BLOCK_SOLVED", y).item = y /\ Idle.at # "relay"
        BY DEF Line, Idle, At
      <4>4. ListenerShape'
        BY <2>3, <4>1, <4>3, ListenerStays
      <4>5. Carries(channel')
        BY <2>3, <4>1, <4>2, <4>3, Multicasts
      <4>6. IsSeq(Append(service[p].verify, y))
        BY <2>3, Owed, Appended
      <4>7. ServiceShape'
        <5> DEFINE solve == service[p].solve
                   verify == Append(service[p].verify, y)
        <5>1. /\ IsSeq(verify)
              /\ service' = [service EXCEPT ![p] = [solve |-> solve, verify |-> verify]]
          BY <2>3, <4>1, <4>6, Owed
        <5> HIDE DEF solve, verify
        <5> QED BY <2>3, <5>1, ServiceStays
      <4> QED BY <2>6, <4>4, <4>5, <4>7
    <3> QED BY <2>11, <3>2, <3>3, <3>4, <3>5, <3>6 DEF ListenerStep
  <2> QED BY <2>2, <2>7, <2>8, <2>9, <2>10, <2>11
<1> QED BY <1>1, <1>2

LEMMA ShapeStep ==
  ASSUME Shape, [Next]_vars
  PROVE  Shape'
BY MiningShapeStep, ChainShapeStep, GossipShapeStep DEF Shape

------------------------------------------------------------------------------
(* What the service solves                                                 *)

LEMMA InitMiningInv == Init => MiningInv
BY DEF Init, MiningInv, Mines

LEMMA MiningInvStep ==
  ASSUME Shape, MiningInv, [Next]_vars
  PROVE  MiningInv'
<1> DEFINE mines(r) == Mines(miner[r], solvingBlock[r], service[r].solve, currentBlock[r])
<1>1. \A r \in Nodes : mines(r)
  BY DEF MiningInv
<1>2. SUFFICES \A r \in Nodes :
          Mines(miner'[r], solvingBlock'[r], service'[r].solve, currentBlock'[r])
  BY DEF MiningInv, Mines
<1>3. /\ OfNodes(miner) /\ OfNodes(solvingBlock) /\ OfNodes(currentBlock) /\ OfNodes(service)
      /\ \A r \in Nodes : /\ IsBlock(currentBlock[r])
                          /\ solvingBlock[r] # NoBlock => IsBlock(solvingBlock[r])
      /\ ServiceShape
  BY DEF Shape, MiningShape, GossipShape, ServiceShape
<1>4. CASE UNCHANGED <<mining, service>>
  BY <1>1, <1>4 DEF mining
\* Only the answer to SOLVE ends the service's work.
<1>5. CASE UNCHANGED mining /\ ~UNCHANGED service
  <2>1. Next
    BY <1>5 DEF vars
  <2>2. PICK p \in Nodes :
            \/ Solve(p) \/ Announce(p) \/ Solved(p) \/ VerifyFails(p) \/ blockVerified(p)
            \/ FinishMined(p)
            \/ \E q \in Nodes : ListenerStep(p, q)
    BY <1>5, <2>1, GossipChanges
  <2>3. ~Solve(p) /\ ~Announce(p) /\ ~FinishMined(p) /\ ~Die(p)
    <3>1. ~Solve(p)
      BY <1>3, <1>5 DEF Solve, MinerMove, mining, OfNodes
    <3> QED BY <1>5, <3>1 DEF Announce, FinishMined, Die
  <2>4. \A q \in Nodes : ~Drop(p, q) /\ ~HearTransaction(p, q) /\ ~Enter(p, q) /\ ~HearBlock(p, q)
    BY <1>5 DEF Drop, HearTransaction, Enter, HearBlock
  <2>5. \A r \in Nodes : \/ service'[r].solve = service[r].solve
                         \/ service'[r].solve = 0 /\ miner[r] # "publish"
    <3>1. CASE Solved(p)
      <4>1. /\ solvingBlock[p] # NoBlock
            /\ service' = [service EXCEPT ![p].solve = 0]
        BY <3>1 DEF Solved, Expected
      <4>2. miner[p] # "publish"
        BY <1>1, <4>1 DEF Mines
      <4>3. service'[p].solve = 0 /\ \A r \in Nodes : r # p => service'[r] = service[r]
        <5>1. service' = [service EXCEPT ![p] = [solve |-> 0, verify |-> service[p].verify]]
          BY <1>3, <4>1, Owed
        <5> QED BY <1>3, <5>1 DEF OfNodes
      <4> QED BY <4>2, <4>3
    <3>2. CASE ~Solved(p)
      <4>1. PICK x : service' = [service EXCEPT ![p].verify = x]
        BY <2>2, <2>3, <2>4, <3>2
           DEF VerifyFails, blockVerified, ListenerStep, RelayBlock
      <4>2. service' = [service EXCEPT ![p] = [solve |-> service[p].solve, verify |-> x]]
        BY <1>3, <4>1, Owed
      <4> QED BY <1>3, <4>2 DEF OfNodes
    <3> QED BY <3>1, <3>2
  <2>6. UNCHANGED <<miner, solvingBlock, currentBlock>>
    BY <1>5 DEF mining
  <2> QED BY <1>1, <2>5, <2>6 DEF Mines
<1>6. CASE ~UNCHANGED mining
  <2>1. Next
    BY <1>6 DEF vars
  <2>2. PICK p \in Nodes :
            \/ Collect(p) \/ ReadParent(p) \/ ReadDepth(p)
            \/ calculateAccountBalances(p) \/ Solve(p) \/ Publish(p) \/ Renew(p)
            \/ SetParent(p) \/ FinishMined(p)
    BY <1>6, <2>1, MiningChanges
  <2> DEFINE b == currentBlock[p]
             s == solvingBlock[p]
             v == service[p].solve
  <2>3. mines(p) /\ IsBlock(b) /\ (s # NoBlock => IsBlock(s))
    BY <1>1, <1>3
  <2>4. SUFFICES /\ \A r \in Nodes : r # p =>
                       /\ miner'[r] = miner[r] /\ solvingBlock'[r] = solvingBlock[r]
                       /\ service'[r] = service[r] /\ currentBlock'[r] = currentBlock[r]
                 /\ Mines(miner'[p], solvingBlock'[p], service'[p].solve, currentBlock'[p])
    BY <1>1
  <2>5. CASE Collect(p)
    <3>1. /\ miner[p] = "idle" /\ miner' = [miner EXCEPT ![p] = "parent"]
          /\ s = NoBlock /\ UNCHANGED <<solvingBlock, service>>
          /\ \E x : currentBlock' = [currentBlock EXCEPT ![p] = x]
      BY <2>5 DEF Collect, MinerMove
    <3> QED BY <1>3, <3>1 DEF Mines, OfNodes
  <2>6. CASE ReadParent(p) \/ ReadDepth(p) \/ calculateAccountBalances(p)
    <3>1. /\ miner[p] \in {"parent", "depth", "balance"}
          /\ \E place \in {"depth", "balance", "hash"} : miner' = [miner EXCEPT ![p] = place]
          /\ UNCHANGED <<solvingBlock, service>>
          /\ \E x : currentBlock' = [currentBlock EXCEPT ![p] = x]
      <4>1. CASE ReadParent(p)
        BY <4>1 DEF ReadParent, MinerMove
      <4>2. CASE ReadDepth(p)
        BY <4>2 DEF ReadDepth, MinerMove
      <4>3. CASE calculateAccountBalances(p)
        <5>1. \E new, balances : currentBlock' = [currentBlock EXCEPT
                  ![p].transactions = new, ![p].balances = balances]
          BY <4>3 DEF calculateAccountBalances
        <5>2. PICK new, balances : currentBlock' = [currentBlock EXCEPT
                  ![p].transactions = new, ![p].balances = balances]
          BY <5>1
        <5>3. \E x : currentBlock' = [currentBlock EXCEPT ![p] = x]
          <6>1. currentBlock' = [currentBlock EXCEPT ![p] =
                    [[b EXCEPT !.transactions = new] EXCEPT !.balances = balances]]
            BY <1>3, <5>2 DEF OfNodes
          <6> QED BY <6>1
        <5> QED BY <4>3, <5>3 DEF calculateAccountBalances, MinerMove
      <4> QED BY <2>6, <4>1, <4>2, <4>3
    <3> QED BY <1>3, <2>3, <3>1 DEF Mines, OfNodes
  <2>7. CASE Solve(p)
    <3>1. /\ miner[p] = "hash" /\ miner' = [miner EXCEPT ![p] = "publish"]
          /\ UNCHANGED solvingBlock
          /\ \E h : /\ currentBlock' = [currentBlock EXCEPT ![p] = [b EXCEPT !.hash = h]]
                    /\ service' = [service EXCEPT ![p].solve = h]
      BY <2>7 DEF Solve, MinerMove
    <3>2. PICK h : /\ currentBlock' = [currentBlock EXCEPT ![p] = [b EXCEPT !.hash = h]]
                   /\ service' = [service EXCEPT ![p].solve = h]
      BY <3>1
    <3>3. service' = [service EXCEPT ![p] = [solve |-> h, verify |-> service[p].verify]]
      BY <1>3, <3>2, Owed
    <3>4. service'[p].solve = h /\ \A r \in Nodes : r # p => service'[r] = service[r]
      BY <1>3, <3>3 DEF OfNodes
    <3>5. currentBlock'[p].hash = h /\ \A r \in Nodes : r # p => currentBlock'[r] = currentBlock[r]
      BY <1>3, <2>3, <3>2 DEF OfNodes, IsBlock
    <3>6. /\ miner'[p] = "publish" /\ s = NoBlock
          /\ \A r \in Nodes : r # p => miner'[r] = miner[r]
      BY <1>3, <2>3, <3>1 DEF OfNodes, Mines
    <3> QED BY <3>1, <3>4, <3>5, <3>6 DEF Mines
  <2>8. CASE Publish(p)
    <3>1. /\ miner[p] = "publish" /\ miner' = [miner EXCEPT ![p] = "renew"]
          /\ solvingBlock' = [solvingBlock EXCEPT ![p] = b]
          /\ UNCHANGED <<currentBlock, service>>
      BY <2>8 DEF Publish, MinerMove
    <3> QED BY <1>3, <2>3, <3>1 DEF Mines, OfNodes
  <2>9. CASE Renew(p)
    <3>1. /\ miner[p] = "renew" /\ miner' = [miner EXCEPT ![p] = "idle"]
          /\ UNCHANGED <<solvingBlock, service>>
          /\ \E x : currentBlock' = [currentBlock EXCEPT ![p] = x]
      BY <2>9 DEF Renew, MinerMove
    <3> QED BY <1>3, <2>3, <3>1 DEF Mines, OfNodes
  \* What changes in a block the clerk changes is not its hash.
  <2>10. CASE SetParent(p)
    <3> DEFINE x == clerk[p].item.hash
    <3>1. /\ UNCHANGED <<miner, service>>
          /\ currentBlock' = [currentBlock EXCEPT ![p] = [b EXCEPT !.prev = x]]
          /\ \/ UNCHANGED solvingBlock
             \/ /\ s # NoBlock /\ miner[p] = "renew"
                /\ solvingBlock' = [solvingBlock EXCEPT ![p] = [s EXCEPT !.prev = x]]
      BY <2>10 DEF SetParent, besideClerk
    <3> HIDE DEF b, s, x
    <3>2. [b EXCEPT !.prev = x].hash = b.hash /\ (s # NoBlock => [s EXCEPT !.prev = x].hash = s.hash)
      BY <2>3, Altered
    <3>3. /\ currentBlock'[p].hash = b.hash
          /\ \A r \in Nodes : r # p => currentBlock'[r] = currentBlock[r]
      BY <1>3, <3>1, <3>2 DEF OfNodes
    <3>4. /\ \A r \in Nodes : r # p => solvingBlock'[r] = solvingBlock[r]
          /\ \/ solvingBlock'[p] = s
             \/ miner[p] = "renew" /\ s # NoBlock /\ solvingBlock'[p].hash = s.hash
      BY <1>3, <3>1, <3>2 DEF OfNodes, s
    <3> QED BY <2>3, <3>1, <3>3, <3>4 DEF Mines, b, s
  <2>11. CASE FinishMined(p)
    <3>1. /\ UNCHANGED <<currentBlock, miner, service>>
          /\ solvingBlock' = [solvingBlock EXCEPT ![p] = NoBlock]
      BY <2>11 DEF FinishMined, besideClerk
    <3> QED BY <1>3, <2>3, <3>1 DEF Mines, OfNodes
  <2> QED BY <2>2, <2>5, <2>6, <2>7, <2>8, <2>9, <2>10, <2>11
<1> QED BY <1>4, <1>5, <1>6

------------------------------------------------------------------------------
(* What the service verifies                                               *)

LEMMA InitVerifyInv == Init => VerifyInv
<1> SUFFICES ASSUME Init PROVE VerifyInv
  OBVIOUS
<1>1. DOMAIN <<>> = {}
  BY EmptySeq, Tight
<1>2. \A p, q \in Nodes : service[p].verify = <<>> /\ listener[p][q].at = "idle"
  BY DEF Init, Idle, At
<1> QED BY <1>1, <1>2 DEF VerifyInv, Verifies

\* The service answers: of the block it has verified there is no other request, and
\* the block may leave unverifiedBlocks.
LEMMA Answers ==
  ASSUME NEW asked, IsSeq(asked), asked # <<>>, NEW set, NEW hears,
         Verifies(asked, set, hears)
  PROVE  /\ Verifies(Tail(asked), set, hears)
         /\ Verifies(Tail(asked), {b \in set : b.hash # Head(asked).hash}, hears)
<1> DEFINE rest == Tail(asked)
<1>1. /\ 1 \in DOMAIN asked /\ Head(asked) = asked[1]
      /\ \A i \in DOMAIN rest :
            i \in Nat /\ i + 1 \in DOMAIN asked /\ i + 1 # 1 /\ rest[i] = asked[i + 1]
  BY Rested
<1> HIDE DEF rest
<1>2. \A i \in DOMAIN rest :
          /\ Known(set, rest[i].hash) /\ rest[i].hash # Head(asked).hash
          /\ \A j \in DOMAIN rest : rest[i].hash = rest[j].hash => i = j
  <2> SUFFICES ASSUME NEW i \in DOMAIN rest
               PROVE  /\ Known(set, rest[i].hash) /\ rest[i].hash # Head(asked).hash
                      /\ \A j \in DOMAIN rest : rest[i].hash = rest[j].hash => i = j
    OBVIOUS
  <2>1. Known(set, asked[i + 1].hash) /\ asked[i + 1].hash # asked[1].hash
    BY <1>1 DEF Verifies
  <2>2. ASSUME NEW j \in DOMAIN rest, rest[i].hash = rest[j].hash
        PROVE  i = j
    <3>1. i + 1 = j + 1
      BY <1>1, <2>2 DEF Verifies
    <3> QED BY <1>1, <3>1
  <2> QED BY <1>1, <2>1, <2>2
<1>3. \A q \in Nodes : hears[q].at = "relay" =>
          /\ Known(set, hears[q].item.hash) /\ hears[q].item.hash # Head(asked).hash
          /\ \A i \in DOMAIN rest : rest[i].hash # hears[q].item.hash
          /\ \A r \in Nodes :
                hears[r].at = "relay" /\ hears[r].item.hash = hears[q].item.hash => q = r
  BY <1>1 DEF Verifies
<1>4. \A h : Known(set, h) /\ h # Head(asked).hash
                => Known({b \in set : b.hash # Head(asked).hash}, h)
  BY DEF Known
<1>5. Verifies(rest, set, hears)
  BY <1>2, <1>3 DEF Verifies
<1>6. Verifies(rest, {b \in set : b.hash # Head(asked).hash}, hears)
  <2> DEFINE left == {b \in set : b.hash # Head(asked).hash}
  <2>1. \A h : Known(set, h) /\ h # Head(asked).hash => Known(left, h)
    BY <1>4
  <2> HIDE DEF left
  <2>2. Verifies(rest, left, hears)
    BY <1>2, <1>3, <2>1 DEF Verifies
  <2> QED BY <2>2 DEF left
<1> QED BY <1>5, <1>6 DEF rest

\* A listener does something that is not about a block.
LEMMA TurnsAway ==
  ASSUME NEW asked, NEW set, NEW hears, Verifies(asked, set, hears),
         NEW q \in Nodes, NEW hear, hear[q].at # "relay",
         \A r \in Nodes : r # q => hear[r] = hears[r]
  PROVE  Verifies(asked, set, hear)
BY DEF Verifies

\* It hears of a block whose hash is not known.
LEMMA HearsNew ==
  ASSUME NEW asked, NEW set, NEW hears, Verifies(asked, set, hears),
         NEW q \in Nodes, NEW hear, NEW b, ~Known(set, b.hash),
         hear[q] = At("relay", b),
         \A r \in Nodes : r # q => hear[r] = hears[r]
  PROVE  Verifies(asked, set \cup {b}, hear)
<1>1. Known(set \cup {b}, b.hash) /\ \A h : Known(set, h) => h # b.hash /\ Known(set \cup {b}, h)
  BY DEF Known
<1>2. hear[q].at = "relay" /\ hear[q].item = b
  BY DEF At
<1>3. \A i \in DOMAIN asked :
          /\ Known(set, asked[i].hash)
          /\ \A j \in DOMAIN asked : asked[i].hash = asked[j].hash => i = j
  BY DEF Verifies
<1>4. \A r \in Nodes : hears[r].at = "relay" =>
          /\ Known(set, hears[r].item.hash)
          /\ \A i \in DOMAIN asked : asked[i].hash # hears[r].item.hash
          /\ \A t \in Nodes :
                hears[t].at = "relay" /\ hears[t].item.hash = hears[r].item.hash => r = t
  BY DEF Verifies
<1>5. ASSUME NEW r \in Nodes, hear[r].at = "relay"
      PROVE  /\ Known(set \cup {b}, hear[r].item.hash)
             /\ \A i \in DOMAIN asked : asked[i].hash # hear[r].item.hash
             /\ \A t \in Nodes :
                   hear[t].at = "relay" /\ hear[t].item.hash = hear[r].item.hash => r = t
  <2>1. CASE r = q
    BY <1>1, <1>2, <1>3, <1>4, <2>1
  <2>2. CASE r # q
    <3>1. hear[r] = hears[r] /\ hears[r].at = "relay"
      BY <1>5, <2>2
    <3>2. hear[r].item.hash # b.hash /\ Known(set \cup {b}, hear[r].item.hash)
      BY <1>1, <1>4, <3>1
    <3>3. ASSUME NEW t \in Nodes, hear[t].at = "relay", hear[t].item.hash = hear[r].item.hash
          PROVE  r = t
      <4>1. t # q
        BY <1>2, <3>2, <3>3
      <4> QED BY <1>4, <3>1, <3>3, <4>1
    <3> QED BY <1>4, <3>1, <3>2, <3>3
  <2> QED BY <2>1, <2>2
<1> QED BY <1>1, <1>3, <1>5 DEF Verifies

\* It asks the service to verify that block.
LEMMA AsksOnce ==
  ASSUME NEW asked, IsSeq(asked), NEW set, NEW hears, Verifies(asked, set, hears),
         NEW q \in Nodes, hears[q].at = "relay", NEW hear, hear[q].at # "relay",
         \A r \in Nodes : r # q => hear[r] = hears[r]
  PROVE  Verifies(Append(asked, hears[q].item), set, hear)
<1> DEFINE b == hears[q].item
           more == Append(asked, b)
           last == Len(asked) + 1
<1>1. /\ DOMAIN more = DOMAIN asked \cup {last} /\ last \notin DOMAIN asked
      /\ more[last] = b /\ \A i \in DOMAIN asked : more[i] = asked[i]
  <2> HIDE DEF b
  <2> QED BY Appended
<1>2. Known(set, b.hash) /\ \A i \in DOMAIN asked : asked[i].hash # b.hash
  BY DEF Verifies
<1>3. \A i \in DOMAIN asked :
          /\ Known(set, asked[i].hash)
          /\ \A j \in DOMAIN asked : asked[i].hash = asked[j].hash => i = j
  BY DEF Verifies
<1>4. \A r \in Nodes : hear[r].at = "relay" =>
          /\ Known(set, hear[r].item.hash) /\ hear[r].item.hash # b.hash
          /\ \A i \in DOMAIN asked : asked[i].hash # hear[r].item.hash
          /\ \A t \in Nodes :
                hear[t].at = "relay" /\ hear[t].item.hash = hear[r].item.hash => r = t
  BY DEF Verifies
<1> HIDE DEF b, more, last
<1>5. \A i \in DOMAIN more :
          /\ Known(set, more[i].hash)
          /\ \A j \in DOMAIN more : more[i].hash = more[j].hash => i = j
  BY <1>1, <1>2, <1>3
<1>6. \A r \in Nodes : hear[r].at = "relay" => \A i \in DOMAIN more : more[i].hash # hear[r].item.hash
  BY <1>1, <1>4
<1>7. Verifies(more, set, hear)
  BY <1>4, <1>5, <1>6 DEF Verifies
<1> QED BY <1>7 DEF more, b

LEMMA VerifyInvStep ==
  ASSUME Shape, VerifyInv, [Next]_vars
  PROVE  VerifyInv'
<1>1. SUFFICES \A r \in Nodes : Verifies(service'[r].verify, unverifiedBlocks'[r], listener'[r])
  BY DEF VerifyInv, Verifies, Known
<1>2. /\ OfNodes(unverifiedBlocks)
      /\ ServiceShape /\ ListenerShape
      /\ OfNodes(service) /\ OfNodes(listener) /\ \A r \in Nodes : OfNodes(listener[r])
  BY DEF Shape, ChainShape, GossipShape, ServiceShape, ListenerShape
<1>3. \A r \in Nodes : Verifies(service[r].verify, unverifiedBlocks[r], listener[r])
  BY DEF VerifyInv
<1>4. CASE /\ UNCHANGED <<unverifiedBlocks, listener>>
           /\ \A r \in Nodes : service'[r].verify = service[r].verify
  BY <1>3, <1>4
<1>5. CASE ~ /\ UNCHANGED <<unverifiedBlocks, listener>>
             /\ \A r \in Nodes : service'[r].verify = service[r].verify
  <2>1. Next /\ ~UNCHANGED <<unverifiedBlocks, listener, service>>
    BY <1>5 DEF vars, chain
  <2>2. PICK p \in Nodes :
           \/ VerifyFails(p) \/ blockVerified(p)
           \/ \E q \in Nodes : ListenerStep(p, q)
    <3>1. ASSUME NEW n \in Nodes, NEW x, service' = [service EXCEPT ![n].solve = x],
                 UNCHANGED <<unverifiedBlocks, listener>>
          PROVE  FALSE
      <4>1. service' = [service EXCEPT ![n] = [solve |-> x, verify |-> service[n].verify]]
        BY <1>2, <3>1, Owed
      <4>2. \A r \in Nodes : service'[r].verify = service[r].verify
        BY <1>2, <4>1 DEF OfNodes
      <4> QED BY <1>5, <3>1, <4>2
    <3>2. \A n \in Nodes : ~Solve(n) /\ ~Solved(n)
      <4>1. \A n \in Nodes : Solve(n) \/ Solved(n) => UNCHANGED <<unverifiedBlocks, listener>>
        BY DEF Solve, Solved, besideMiner, chain
      <4>2. \A n \in Nodes : Solve(n) \/ Solved(n) =>
                               \E x : service' = [service EXCEPT ![n].solve = x]
        BY DEF Solve, Solved
      <4> QED BY <3>1, <4>1, <4>2
    <3>3. \A n \in Nodes : ~Announce(n) /\ ~FinishMined(n)
      BY <2>1 DEF Announce, FinishMined, besideClerk, chain
    <3>4. CASE UNCHANGED <<listener, channel, service>>
      <4>1. ~UNCHANGED unverifiedBlocks
        BY <2>1, <3>4
      <4>2. ~UNCHANGED <<chain, longest, clerk>>
        BY <4>1 DEF chain
      <4>3. \A n \in Nodes : /\ ~Store(n) /\ ~SetHash(n) /\ ~KeepChain(n) /\ ~SetDepth(n)
                             /\ ~SetParent(n) /\ ~FinishVerified(n)
        BY <4>1 DEF Store, SetHash, KeepChain, SetDepth, SetParent, FinishVerified, chain
      <4>4. \E n \in Nodes : blockVerified(n) \/ \E q \in Nodes : HearBlock(n, q)
        BY <2>1, <3>2, <3>3, <4>2, <4>3, ChainChanges
      <4> QED BY <4>4 DEF ListenerStep
    <3>5. CASE ~UNCHANGED <<listener, channel, service>>
      BY <2>1, <3>2, <3>3, <3>5, GossipChanges
    <3> QED BY <3>4, <3>5
  <2> DEFINE asked == service[p].verify
             set == unverifiedBlocks[p]
             hears == listener[p]
  <2>3. Verifies(asked, set, hears) /\ IsSeq(asked)
    BY <1>2, <1>3, Owed
  \* What others have is as it was.
  <2>4. SUFFICES /\ \A r \in Nodes : r # p =>
                       /\ service'[r] = service[r] /\ listener'[r] = listener[r]
                       /\ unverifiedBlocks'[r] = unverifiedBlocks[r]
                 /\ Verifies(service'[p].verify, unverifiedBlocks'[p], listener'[p])
    BY <1>3
  <2>5. ASSUME NEW x, service' = [service EXCEPT ![p].verify = x]
        PROVE  service'[p].verify = x /\ \A r \in Nodes : r # p => service'[r] = service[r]
    <3>1. service' = [service EXCEPT ![p] = [solve |-> service[p].solve, verify |-> x]]
      BY <1>2, <2>5, Owed
    <3> QED BY <1>2, <3>1 DEF OfNodes
  <2>6. CASE VerifyFails(p)
    <3>1. /\ asked # <<>> /\ service' = [service EXCEPT ![p].verify = Tail(asked)]
          /\ UNCHANGED <<unverifiedBlocks, listener>>
      BY <2>6 DEF VerifyFails, Answered, besideMiner, chain
    <3>2. service'[p].verify = Tail(asked) /\ \A r \in Nodes : r # p => service'[r] = service[r]
      BY <2>5, <3>1
    <3>3. Verifies(Tail(asked), set, hears)
      <4> HIDE DEF asked, set, hears
      <4> QED BY <2>3, <3>1, Answers
    <3> QED BY <3>1, <3>2, <3>3
  <2>7. CASE blockVerified(p)
    <3> DEFINE left == {b \in set : b.hash # Head(asked).hash}
    <3>1. ~Die(p)
      BY <2>1 DEF Die, chain
    <3>2. /\ asked # <<>> /\ service' = [service EXCEPT ![p].verify = Tail(asked)]
          /\ unverifiedBlocks' = [unverifiedBlocks EXCEPT ![p] = left]
          /\ UNCHANGED listener
      BY <2>7, <3>1 DEF blockVerified, Answered
    <3>3. service'[p].verify = Tail(asked) /\ \A r \in Nodes : r # p => service'[r] = service[r]
      BY <2>5, <3>2
    <3>4. /\ unverifiedBlocks'[p] = left
          /\ \A r \in Nodes : r # p => unverifiedBlocks'[r] = unverifiedBlocks[r]
      BY <1>2, <3>2 DEF OfNodes
    <3>5. Verifies(Tail(asked), left, hears)
      <4> HIDE DEF asked, set, hears
      <4> QED BY <2>3, <3>2, Answers
    <3> QED BY <3>2, <3>3, <3>4, <3>5
  <2>8. CASE \E q \in Nodes : ListenerStep(p, q)
    <3>0. PICK q \in Nodes : ListenerStep(p, q)
      BY <2>8
    <3> DEFINE hear == listener'[p]
    <3>1. ASSUME NEW x, listener' = [listener EXCEPT ![p][q] = x]
          PROVE  /\ hear[q] = x /\ \A r \in Nodes : r # q => hear[r] = hears[r]
                 /\ \A r \in Nodes : r # p => listener'[r] = listener[r]
      BY <1>2, <3>1 DEF OfNodes
    <3>2. ~Drop(p, q)
      BY <2>1 DEF Drop, chain
    <3>3. CASE HearTransaction(p, q) \/ Enter(p, q)
      <4>1. /\ UNCHANGED <<service, unverifiedBlocks>>
            /\ \E x : x.at # "relay" /\ listener' = [listener EXCEPT ![p][q] = x]
        BY <3>3 DEF HearTransaction, Enter, chain, Idle, At
      <4>2. PICK x : x.at # "relay" /\ listener' = [listener EXCEPT ![p][q] = x]
        BY <4>1
      <4>3. /\ hear[q].at # "relay" /\ \A r \in Nodes : r # q => hear[r] = hears[r]
            /\ \A r \in Nodes : r # p => listener'[r] = listener[r]
        BY <3>1, <4>2
      <4>4. Verifies(asked, set, hear)
        <5> HIDE DEF asked, set, hears, hear
        <5> QED BY <2>3, <4>3, TurnsAway
      <4> QED BY <4>1, <4>3, <4>4
    <3>4. CASE HearBlock(p, q)
      <4> DEFINE b == Heard(p, q)
      <4>1. /\ ~Known(set, b.hash) /\ UNCHANGED service
            /\ unverifiedBlocks' = [unverifiedBlocks EXCEPT ![p] = set \cup {b}]
            /\ listener' = [listener EXCEPT ![p][q] = At("relay", b)]
        BY <3>4 DEF HearBlock, KnownHere
      <4>2. /\ hear[q] = At("relay", b) /\ \A r \in Nodes : r # q => hear[r] = hears[r]
            /\ \A r \in Nodes : r # p => listener'[r] = listener[r]
        BY <3>1, <4>1
      <4>3. /\ unverifiedBlocks'[p] = set \cup {b}
            /\ \A r \in Nodes : r # p => unverifiedBlocks'[r] = unverifiedBlocks[r]
        BY <1>2, <4>1 DEF OfNodes
      <4>4. Verifies(asked, set \cup {b}, hear)
        <5> HIDE DEF asked, set, hears, hear, b
        <5> QED BY <2>3, <4>1, <4>2, HearsNew
      <4> QED BY <4>1, <4>2, <4>3, <4>4
    <3>5. CASE RelayBlock(p, q)
      <4> DEFINE b == hears[q].item
      <4>1. /\ hears[q].at = "relay" /\ UNCHANGED unverifiedBlocks
            /\ service' = [service EXCEPT ![p].verify = Append(asked, b)]
            /\ listener' = [listener EXCEPT ![p][q] = Idle]
        BY <3>5 DEF RelayBlock, chain
      <4>2. Idle.at # "relay"
        BY DEF Idle, At
      <4>3. /\ hear[q].at # "relay" /\ \A r \in Nodes : r # q => hear[r] = hears[r]
            /\ \A r \in Nodes : r # p => listener'[r] = listener[r]
        BY <3>1, <4>1, <4>2
      <4>4. /\ service'[p].verify = Append(asked, b)
            /\ \A r \in Nodes : r # p => service'[r] = service[r]
        BY <2>5, <4>1
      <4>5. Verifies(Append(asked, b), set, hear)
        <5> HIDE DEF asked, set, hears, hear
        <5> QED BY <2>3, <4>1, <4>3, AsksOnce
      <4> QED BY <4>1, <4>3, <4>4, <4>5
    <3> QED BY <3>0, <3>2, <3>3, <3>4, <3>5 DEF ListenerStep
  <2> QED BY <2>2, <2>6, <2>7, <2>8
<1> QED BY <1>4, <1>5

------------------------------------------------------------------------------
(* The longest chain                                                       *)

LEMMA InitChainInv == Init => ChainInv
<1> SUFFICES ASSUME Init PROVE ChainInv
  OBVIOUS
<1>1. \A p \in Nodes : blocks[p] = {} /\ clerk[p].at = "idle"
  BY DEF Init, Resting, Working
<1> QED BY <1>1 DEF ChainInv, Longest

LEMMA ChainInvStep ==
  ASSUME Shape, ChainInv, [Next]_vars
  PROVE  ChainInv'
<1>1. SUFFICES \A r \in Nodes : Longest(clerk'[r].at, clerk'[r].item, blocks'[r],
                                        longestChainHash'[r], longestChainDepth'[r])
  BY DEF ChainInv, Longest, Beaten
<1>2. /\ OfNodes(blocks) /\ OfNodes(clerk)
      /\ longestChainHash \in [Nodes -> Nat] /\ longestChainDepth \in [Nodes -> Nat]
      /\ ChainShape
  BY DEF Shape, ChainShape
<1>3. \A r \in Nodes : Longest(clerk[r].at, clerk[r].item, blocks[r],
                               longestChainHash[r], longestChainDepth[r])
  BY DEF ChainInv
<1>4. CASE UNCHANGED <<chain, longest, clerk>>
  BY <1>3, <1>4 DEF chain, longest
<1>5. CASE ~UNCHANGED <<chain, longest, clerk>>
  <2>1. Next
    BY <1>5 DEF vars
  <2>2. PICK p \in Nodes :
            \/ Solved(p) \/ blockVerified(p) \/ Store(p) \/ SetHash(p) \/ KeepChain(p)
            \/ SetDepth(p) \/ SetParent(p) \/ FinishMined(p) \/ FinishVerified(p)
            \/ \E q \in Nodes : HearBlock(p, q)
    BY <1>5, <2>1, ChainChanges
  <2> DEFINE item == clerk[p].item
             set == blocks[p]
             hash == longestChainHash[p]
             depth == longestChainDepth[p]
  <2>3. /\ Longest(clerk[p].at, item, set, hash, depth)
        /\ hash \in Nat /\ depth \in Nat
        /\ \A b \in set : b.hash \in Nat /\ b.depth \in Nat
        /\ clerk[p].at # "idle" => item.hash \in Nat /\ item.depth \in Nat
    BY <1>2, <1>3 DEF ChainShape, IsBlock
  <2>4. SUFFICES /\ \A r \in Nodes : r # p =>
                       /\ clerk'[r] = clerk[r] /\ blocks'[r] = blocks[r]
                       /\ longestChainHash'[r] = longestChainHash[r]
                       /\ longestChainDepth'[r] = longestChainDepth[r]
                 /\ Longest(clerk'[p].at, clerk'[p].item, blocks'[p],
                            longestChainHash'[p], longestChainDepth'[p])
    BY <1>3
  <2>5. ASSUME NEW from, NEW to, ClerkMove(p, from, to)
        PROVE  /\ clerk[p].at = from /\ clerk'[p].at = to /\ clerk'[p].item = item
               /\ \A r \in Nodes : r # p => clerk'[r] = clerk[r]
    <3>1. /\ clerk[p].at = from /\ clerk'[p] = Working(to, item, clerk[p].mined)
          /\ \A r \in Nodes : r # p => clerk'[r] = clerk[r]
      BY <1>2, <2>5, ClerkMoves
    <3> QED BY <3>1 DEF Working
  \* The clerk begins, or ends: no block is in between.
  <2>6. CASE Solved(p) \/ blockVerified(p) \/ FinishMined(p) \/ FinishVerified(p)
    <3>1. ~Die(p)
      BY <1>5 DEF Die
    <3>2. clerk[p].at \in {"idle", "done"}
      BY <2>6, <3>1
         DEF Solved, blockVerified, Answered, Told, FinishMined, FinishVerified, Resting, Working
    <3>3. UNCHANGED <<blocks, longest>>
      BY <2>6, <3>1 DEF Solved, blockVerified, FinishMined, FinishVerified, chain
    <3>4. clerk'[p].at \in {"store", "idle"} /\ \A r \in Nodes : r # p => clerk'[r] = clerk[r]
      <4>1. CASE Solved(p) \/ blockVerified(p)
        <5>1. \E b, mined : clerk' = [clerk EXCEPT ![p] = Working("store", b, mined)]
          BY <3>1, <4>1 DEF Solved, blockVerified
        <5>2. PICK b, mined : clerk' = [clerk EXCEPT ![p] = Working("store", b, mined)]
          BY <5>1
        <5> QED BY <1>2, <5>2 DEF OfNodes, Working
      <4>2. CASE FinishMined(p) \/ FinishVerified(p)
        BY <1>2, <4>2 DEF FinishMined, FinishVerified, OfNodes, Resting, Working
      <4> QED BY <2>6, <4>1, <4>2
    <3> QED BY <2>3, <3>2, <3>3, <3>4 DEF longest, Longest
  <2>7. CASE Store(p)
    <3>1. /\ ClerkMove(p, "store", "compare") /\ UNCHANGED longest
          /\ blocks' = [blocks EXCEPT ![p] = Put(set, item)]
      BY <2>7 DEF Store
    <3>2. clerk[p].at = "store" /\ clerk'[p].at = "compare" /\ clerk'[p].item = item
      BY <2>5, <3>1
    <3>3. blocks'[p] = Put(set, item) /\ \A r \in Nodes : r # p => blocks'[r] = blocks[r]
      BY <1>2, <3>1 DEF OfNodes
    <3>4. \A b \in blocks'[p] : b \in set \/ b = item
      BY <3>3, Puts
    <3>5. Longest("compare", item, blocks'[p], hash, depth)
      <4> HIDE DEF item, set, hash, depth
      <4> QED BY <2>3, <3>2, <3>4 DEF Longest
    <3> QED BY <2>5, <3>1, <3>2, <3>3, <3>5 DEF longest
  <2>8. CASE SetHash(p)
    <3>1. /\ \/ ClerkMove(p, "compare", "deepen") /\ depth < item.depth
             \/ ClerkMove(p, "compare", "parent") /\ depth = item.depth /\ hash > item.hash
          /\ longestChainHash' = [longestChainHash EXCEPT ![p] = item.hash]
          /\ UNCHANGED <<blocks, longestChainDepth>>
      BY <2>8 DEF SetHash, Deeper, Smaller, chain
    <3>2. /\ clerk[p].at = "compare" /\ clerk'[p].item = item
          /\ \/ clerk'[p].at = "deepen" /\ depth < item.depth
             \/ clerk'[p].at = "parent" /\ depth = item.depth /\ hash > item.hash
      BY <2>5, <3>1
    <3>3. /\ longestChainHash'[p] = item.hash
          /\ \A r \in Nodes : r # p => longestChainHash'[r] = longestChainHash[r]
      BY <1>2, <3>1
    <3>4. Longest(clerk'[p].at, item, set, item.hash, depth)
      <4> HIDE DEF item, set, hash, depth
      <4> QED BY <2>3, <3>2 DEF Longest, Beaten
    <3> QED BY <2>5, <3>1, <3>2, <3>3, <3>4
  <2>9. CASE KeepChain(p)
    <3>1. /\ ClerkMove(p, "compare", "done") /\ UNCHANGED <<blocks, longest>>
          /\ ~(depth < item.depth) /\ ~(depth = item.depth /\ hash > item.hash)
      BY <2>9 DEF KeepChain, Deeper, Smaller, chain
    <3>2. clerk[p].at = "compare" /\ clerk'[p].at = "done" /\ clerk'[p].item = item
      BY <2>5, <3>1
    <3>3. Longest("done", item, set, hash, depth)
      <4> HIDE DEF item, set, hash, depth
      <4> QED BY <2>3, <3>1, <3>2 DEF Longest, Beaten
    <3> QED BY <2>5, <3>1, <3>2, <3>3 DEF longest
  <2>10. CASE SetDepth(p)
    <3>1. /\ ClerkMove(p, "deepen", "parent") /\ UNCHANGED <<blocks, longestChainHash>>
          /\ longestChainDepth' = [longestChainDepth EXCEPT ![p] = item.depth]
      BY <2>10 DEF SetDepth, chain
    <3>2. clerk[p].at = "deepen" /\ clerk'[p].at = "parent" /\ clerk'[p].item = item
      BY <2>5, <3>1
    <3>3. /\ longestChainDepth'[p] = item.depth
          /\ \A r \in Nodes : r # p => longestChainDepth'[r] = longestChainDepth[r]
      BY <1>2, <3>1
    <3>4. Longest("parent", item, set, hash, item.depth)
      <4> HIDE DEF item, set, hash, depth
      <4> QED BY <2>3, <3>2 DEF Longest, Beaten
    <3> QED BY <2>5, <3>1, <3>2, <3>3, <3>4
  \* The parent of a block is not what chains are compared by.
  <2>11. CASE SetParent(p)
    <3> DEFINE s == solvingBlock[p]
               altered == [s EXCEPT !.prev = item.hash]
    <3>1. /\ ClerkMove(p, "parent", "done") /\ UNCHANGED longest
          /\ \/ UNCHANGED blocks
             \/ blocks' = [blocks EXCEPT ![p] = IF s \in set THEN Put(set, altered) ELSE set]
      BY <2>11 DEF SetParent
    <3>2. clerk[p].at = "parent" /\ clerk'[p].at = "done" /\ clerk'[p].item = item
      BY <2>5, <3>1
    <3>3. /\ blocks'[p] = set \/ (s \in set /\ blocks'[p] = Put(set, altered))
          /\ \A r \in Nodes : r # p => blocks'[r] = blocks[r]
      BY <1>2, <3>1 DEF OfNodes
    <3>4. s \in set => altered.hash = s.hash /\ altered.depth = s.depth
      <4>1. s \in set => IsBlock(s)
        BY <1>2 DEF ChainShape
      <4> HIDE DEF s, set, item
      <4> QED BY <4>1, Altered
    <3> HIDE DEF altered
    <3>5. \A b \in blocks'[p] : \E c \in set : b.hash = c.hash /\ b.depth = c.depth
      <4> HIDE DEF s, set
      <4> QED BY <3>3, <3>4, Puts
    <3>6. \A b \in set : Beaten(b, hash, depth)
      BY <2>3, <3>2 DEF Longest
    <3>7. Longest("done", item, blocks'[p], hash, depth)
      <4> HIDE DEF item, set, hash, depth
      <4> QED BY <3>5, <3>6 DEF Longest, Beaten
    <3> QED BY <2>5, <3>1, <3>2, <3>3, <3>7 DEF longest
  <2>12. CASE \E q \in Nodes : HearBlock(p, q)
    <3>1. UNCHANGED <<blocks, longest, clerk>>
      BY <2>12 DEF HearBlock
    <3> QED BY <2>3, <3>1 DEF longest
  <2> QED BY <2>2, <2>6, <2>7, <2>8, <2>9, <2>10, <2>11, <2>12
<1> QED BY <1>4, <1>5

------------------------------------------------------------------------------
(* What a fold over transactions leaves in the accounts                    *)

\* Induction, of a set of numbers: that a set of them that is not empty has a least one can
\* be cited, unlike the library's theorems about an operator.
LEMMA Induction ==
  ASSUME NEW A, A \subseteq Nat, 0 \in A, \A n \in Nat : n \in A => n + 1 \in A
  PROVE  A = Nat
<1> DEFINE R == OpToRel(<, Nat)
           Bad == Nat \ A
<1>1. SUFFICES ASSUME Bad # {} PROVE FALSE
  OBVIOUS
<1>2. IsWellFoundedOn(R, Nat)
  BY NatLessThanWellFounded
<1>3. Bad \subseteq Nat
  OBVIOUS
<1>4. \A x, y \in Nat : y < x => <<y, x>> \in R
  BY DEF OpToRel
<1> HIDE DEF R, Bad
<1>5. \E x \in Bad : \A y \in Bad : ~ (<<y, x>> \in R)
  BY <1>1, <1>2, <1>3, WFMin
<1>6. PICK x \in Bad : \A y \in Bad : ~ (<<y, x>> \in R)
  BY <1>5
<1>7. x \in Nat /\ x # 0
  BY DEF Bad
<1>8. x - 1 \in Nat /\ x - 1 < x /\ (x - 1) + 1 = x
  BY <1>7
<1>9. x - 1 \notin Bad
  BY <1>4, <1>6, <1>7, <1>8
<1> QED BY <1>7, <1>8, <1>9 DEF Bad

\* The balances of accounts, none overdrawn but the one money comes from.
Sheets == {b \in [Accounts -> Int] : \A a \in Accounts \ {0} : b[a] >= 0}
Money == [src : Accounts, dest : Accounts, amount : Nat]

\* A transaction overdraws no account.
LEMMA Applies ==
  ASSUME NEW b \in Sheets, NEW t \in Money
  PROVE  Apply(b, t) \in Sheets
<1>1. /\ b \in [Accounts -> Int] /\ \A a \in Accounts \ {0} : b[a] >= 0
      /\ t.src \in Accounts /\ t.dest \in Accounts /\ t.amount \in Nat
  BY DEF Sheets, Money
<1> DEFINE c == [b EXCEPT ![t.src] = b[t.src] - t.amount]
           d == [c EXCEPT ![t.dest] = c[t.dest] + t.amount]
<1>2. CASE t.src # 0 /\ b[t.src] < t.amount
  BY <1>2 DEF Apply
<1>3. CASE ~(t.src # 0 /\ b[t.src] < t.amount)
  <2>1. Apply(b, t) = d
    BY <1>3 DEF Apply
  <2>2. c \in [Accounts -> Int] /\ \A a \in Accounts \ {0} : c[a] >= 0
    BY <1>1, <1>3
  <2> HIDE DEF c
  <2>3. d \in [Accounts -> Int] /\ \A a \in Accounts \ {0} : d[a] >= 0
    BY <1>1, <2>2
  <2> QED BY <2>1, <2>3 DEF Sheets
<1> QED BY <1>2, <1>3

\* f does as the fold over the first n of a sequence does, for each set of them.
Folds(f, base, seq, n) ==
    f = [s \in SUBSET (1..n) |->
           IF s = {} THEN base ELSE Apply(f[s \ {Max(s)}], seq[Max(s)])]

\* What comes last in the first n + 1.
LEMMA Largest ==
  ASSUME NEW n \in Nat, NEW s, s \subseteq 1..(n + 1), n + 1 \in s
  PROVE  Max(s) = n + 1
<1>1. \A x \in s : n + 1 >= x
  OBVIOUS
<1>2. \A x \in s : (\A y \in s : x >= y) => x = n + 1
  BY <1>1
<1> QED BY <1>1, <1>2 DEF Max

\* There is such a function, which can be continued by one.
LEMMA FoldExists ==
  ASSUME NEW base, NEW seq
  PROVE  \A n \in Nat : \E f : Folds(f, base, seq, n)
<1> DEFINE A == {n \in Nat : \E f : Folds(f, base, seq, n)}
<1>1. 0 \in A
  <2> DEFINE f == [s \in SUBSET (1..0) |-> base]
  <2>1. SUBSET (1..0) = {{}}
    OBVIOUS
  <2>2. f = [s \in SUBSET (1..0) |->
               IF s = {} THEN base ELSE Apply(f[s \ {Max(s)}], seq[Max(s)])]
    BY <2>1
  <2> HIDE DEF f
  <2>3. Folds(f, base, seq, 0)
    BY <2>2 DEF Folds
  <2> QED BY <2>3
<1>2. ASSUME NEW n \in Nat, n \in A
      PROVE  n + 1 \in A
  <2>1. PICK f : Folds(f, base, seq, n)
    BY <1>2
  <2> DEFINE Body(g, s) == IF s = {} THEN base ELSE Apply(g[s \ {Max(s)}], seq[Max(s)])
             h == [s \in SUBSET (1..(n + 1)) |->
                     IF n + 1 \in s THEN Apply(f[s \ {n + 1}], seq[n + 1]) ELSE f[s]]
  <2>2. \A s \in SUBSET (1..n) : f[s] = Body(f, s)
    BY <2>1 DEF Folds
  <2>3. \A s \in SUBSET (1..n) : s \in SUBSET (1..(n + 1)) /\ n + 1 \notin s /\ h[s] = f[s]
    OBVIOUS
  <2>4. ASSUME NEW s \in SUBSET (1..(n + 1))
        PROVE  h[s] = Body(h, s)
    <3>1. CASE n + 1 \in s
      <4>1. Max(s) = n + 1 /\ s # {}
        BY <3>1, Largest
      <4>2. s \ {n + 1} \in SUBSET (1..n)
        OBVIOUS
      <4>3. h[s] = Apply(f[s \ {n + 1}], seq[n + 1])
        BY <3>1
      <4>4. h[s \ {n + 1}] = f[s \ {n + 1}]
        BY <2>3, <4>2
      <4> HIDE DEF h
      <4>5. Body(h, s) = Apply(h[s \ {n + 1}], seq[n + 1])
        BY <4>1
      <4> QED BY <4>3, <4>4, <4>5
    <3>2. CASE n + 1 \notin s
      <4>1. s \in SUBSET (1..n) /\ s \ {Max(s)} \in SUBSET (1..n)
        <5>1. \A x \in s : x \in 1..(n + 1) /\ x # n + 1
          BY <3>2
        <5>2. \A x \in s : x \in 1..n
          BY <5>1
        <5> QED BY <5>2
      <4>2. h[s] = f[s] /\ h[s \ {Max(s)}] = f[s \ {Max(s)}]
        BY <2>3, <4>1
      <4>3. f[s] = Body(f, s)
        BY <2>2, <4>1
      <4> HIDE DEF h
      <4> QED BY <4>2, <4>3
    <3> QED BY <3>1, <3>2
  <2>5. h = [s \in SUBSET (1..(n + 1)) |-> h[s]]
    OBVIOUS
  <2> HIDE DEF h
  <2>6. Folds(h, base, seq, n + 1)
    BY <2>4, <2>5 DEF Folds
  <2> QED BY <2>6
<1> HIDE DEF A
<1>3. A \subseteq Nat
  BY DEF A
<1>4. A = Nat
  BY <1>1, <1>2, <1>3, Induction
<1> QED BY <1>4 DEF A

\* No account of the result is overdrawn, when none of the base is.
LEMMA FoldSheet ==
  ASSUME NEW base \in Sheets, NEW n \in Nat, NEW seq \in [1..n -> Money],
         NEW f, Folds(f, base, seq, n)
  PROVE  f[1..n] \in Sheets
<1> DEFINE A == {k \in Nat : k <= n => f[1..k] \in Sheets}
<1>1. \A s \in SUBSET (1..n) :
         f[s] = IF s = {} THEN base ELSE Apply(f[s \ {Max(s)}], seq[Max(s)])
  BY DEF Folds
<1>2. 0 \in A
  <2>1. 1..0 = {} /\ 1..0 \in SUBSET (1..n)
    OBVIOUS
  <2>2. f[1..0] = base
    BY <1>1, <2>1
  <2> QED BY <2>2
<1>3. ASSUME NEW k \in Nat, k \in A
      PROVE  k + 1 \in A
  <2>1. SUFFICES ASSUME k + 1 <= n PROVE f[1..(k + 1)] \in Sheets
    OBVIOUS
  <2>2. f[1..k] \in Sheets
    BY <1>3, <2>1
  <2> DEFINE s == 1..(k + 1)
  <2>3. s \in SUBSET (1..n) /\ s # {} /\ k + 1 \in s /\ s \subseteq 1..(k + 1)
    <3>1. k + 1 \in s /\ \A x \in s : x \in 1..n
      BY <2>1
    <3> QED BY <3>1
  <2>4. s \ {k + 1} = 1..k
    OBVIOUS
  <2> HIDE DEF s
  <2>5. Max(s) = k + 1
    BY <2>3, Largest
  <2>6. f[s] = Apply(f[1..k], seq[k + 1])
    BY <1>1, <2>3, <2>4, <2>5
  <2>7. seq[k + 1] \in Money
    BY <2>1
  <2>8. f[s] \in Sheets
    BY <2>2, <2>6, <2>7, Applies
  <2> QED BY <2>8 DEF s
<1> HIDE DEF A
<1>4. A \subseteq Nat
  BY DEF A
<1>5. A = Nat
  BY <1>2, <1>3, <1>4, Induction
<1> QED BY <1>5 DEF A

\* The fold is such a function, so a sequence of transactions overdraws no account.
LEMMA FoldSound ==
  ASSUME NEW base \in Sheets, NEW n \in Nat, NEW seq \in [1..n -> Money]
  PROVE  FoldLeft(Apply, base, seq) \in Sheets
<1> DEFINE f == CHOOSE g : Folds(g, base, seq, n)
<1>1. DOMAIN seq = 1..n
  OBVIOUS
<1>2. FoldLeft(Apply, base, seq) =
        (CHOOSE g : g = [s \in SUBSET (DOMAIN seq) |->
           IF s = {} THEN base ELSE Apply(g[s \ {Max(s)}], seq[Max(s)])])[DOMAIN seq]
  BY DEF FoldLeft, MapThenFoldSet
<1>3. FoldLeft(Apply, base, seq) = f[1..n]
  BY <1>1, <1>2 DEF Folds
<1>4. \E g : Folds(g, base, seq, n)
  BY FoldExists
<1>5. Folds(f, base, seq, n)
  BY <1>4
<1> HIDE DEF f
<1>6. f[1..n] \in Sheets
  BY <1>5, FoldSheet
<1> QED BY <1>3, <1>6

------------------------------------------------------------------------------
(* The blocks there are, and where they come from                          *)

Pool == Range(Transactions)

\* A block with a hash, and one that the miner fills; no account of either is overdrawn.
Sound == [hash : Hashes, prev : 0..MaxBlocks, depth : Nat \ {0},
          transactions : SUBSET Pool, balances : Sheets]
Drafts == [hash : 0..MaxBlocks, prev : 0..MaxBlocks, depth : Nat,
           transactions : SUBSET Pool, balances : Sheets]
\* What a channel carries, and where a listener is with what.
Lines == [type : {"TRANSACTION"}, item : Pool] \cup [type : {"BLOCK_SOLVED"}, item : Sound]
Hearing == [at : {"idle"}, item : {NoBlock}] \cup [at : {"enter"}, item : Pool]
             \cup [at : {"relay"}, item : Sound]

\* A hash that a block may have as its parent's.
Founded(set, hash) == hash = 0 \/ Known(set, hash)
OnePerHash(set) == \A b, c \in set : b.hash = c.hash => b = c

PoolSound ==
    /\ transactions \in [Nodes -> SUBSET Pool]
    /\ transactionsBuff \in [Nodes -> SUBSET Pool]
    /\ announced \in Nat
    /\ \A p \in Nodes : transactionsBuff[p] \subseteq transactions[p]

\* From the place where the miner has read it, the parent of its block is a block the
\* node has; its depth and its hash are set when they are needed.
Filled(place, block, set) ==
    /\ place \notin {"idle", "parent"} => Founded(set, block.prev)
    /\ place \notin {"idle", "parent", "depth"} => block.depth # 0
    /\ place = "publish" => block.hash # 0

MinerSound ==
    /\ currentBlock \in [Nodes -> Drafts]
    /\ solvingBlock \in [Nodes -> Sound \cup {NoBlock}]
    /\ \A p \in Nodes : Filled(miner[p], currentBlock[p], blocks[p])

ChainSound ==
    /\ blocks \in [Nodes -> SUBSET Sound]
    /\ unverifiedBlocks \in [Nodes -> SUBSET Sound]
    /\ \A p \in Nodes :
          /\ OnePerHash(blocks[p]) /\ OnePerHash(unverifiedBlocks[p])
          /\ clerk[p].at = "idle" => clerk[p].item = NoBlock
          /\ clerk[p].at # "idle" => clerk[p].item \in Sound
          /\ Founded(blocks[p], longestChainHash[p])

GossipSound ==
    /\ channel \in [Nodes -> [Nodes -> Seq(Lines)]]
    /\ listener \in [Nodes -> [Nodes -> Hearing]]
    /\ service \in [Nodes -> [solve : 0..MaxBlocks, verify : Seq(Sound)]]

AllSound == PoolSound /\ MinerSound /\ ChainSound /\ GossipSound

\* What the service sends moves money between accounts, and is finite.
LEMMA PoolMoney ==
  /\ IsFiniteSet(Pool) /\ Pool \subseteq Money
  /\ \A i \in 1..Len(Transactions) : Transactions[i] \in Pool
  /\ Len(Transactions) \in Nat
<1>1. Transactions \in Seq(Money)
  BY ChainAssumption DEF Money
<1>2. /\ Len(Transactions) \in Nat /\ DOMAIN Transactions = 1..Len(Transactions)
      /\ Transactions \in [1..Len(Transactions) -> Money]
  BY <1>1, LenProperties
<1>3. Pool \subseteq Money /\ \A i \in 1..Len(Transactions) : Transactions[i] \in Pool
  BY <1>2 DEF Pool, Range
<1>4. Transactions \in Surjection(1..Len(Transactions), Pool)
  <2>1. Transactions \in [1..Len(Transactions) -> Pool]
    BY <1>2, <1>3
  <2>2. \A t \in Pool : \E i \in 1..Len(Transactions) : Transactions[i] = t
    BY <1>2 DEF Pool, Range
  <2> QED BY <2>1, <2>2 DEF Surjection
<1>5. IsFiniteSet(1..Len(Transactions))
  BY <1>2, FS_Interval
<1>6. IsFiniteSet(Pool)
  BY <1>4, <1>5, FS_Surjection
<1> QED BY <1>2, <1>3, <1>6

\* Whatever the order a node applies transactions in, no account is overdrawn.
LEMMA OrdersSound ==
  ASSUME NEW new, new \subseteq Pool, NEW order \in SetToSeqs(new), NEW base \in Sheets
  PROVE  FoldLeft(Apply, base, order) \in Sheets
<1>1. Cardinality(new) \in Nat
  BY PoolMoney, FS_Subset, FS_CardinalityType
<1>2. order \in [1..Cardinality(new) -> new]
  BY DEF SetToSeqs
<1>3. order \in [1..Cardinality(new) -> Money]
  BY <1>2, PoolMoney
<1> QED BY <1>1, <1>3, FoldSound

\* What else a sound block is, and when a block that is filled has become one.
LEMMA SoundAre ==
  /\ Sound \subseteq Drafts /\ Sound \subseteq Blocks /\ NoBlock \notin Sound
  /\ \A b \in Sound : b.hash # 0 /\ \A a \in Accounts \ {0} : b.balances[a] >= 0
  /\ \A b \in Drafts : b.hash # 0 /\ b.depth # 0 => b \in Sound
<1>1. MaxBlocks \in Nat
  BY ChainAssumption
<1>2. \A h \in Hashes : h \in 0..MaxBlocks /\ h # 0
  BY <1>1 DEF Hashes
<1>3. \A h \in 0..MaxBlocks : h # 0 => h \in Hashes
  BY <1>1 DEF Hashes
<1>4. Sound \subseteq Drafts
  BY <1>2 DEF Sound, Drafts
<1>5. Sound \subseteq Blocks
  BY DEF Sound, Blocks, Sheets, Pool
<1>6. NoBlock \notin Sound
  BY <1>5, NilAssumption
<1>7. \A b \in Sound : b.hash # 0 /\ \A a \in Accounts \ {0} : b.balances[a] >= 0
  BY <1>2 DEF Sound, Sheets
<1>8. \A b \in Drafts : b.hash # 0 /\ b.depth # 0 => b \in Sound
  BY <1>3 DEF Sound, Drafts
<1> QED BY <1>4, <1>5, <1>6, <1>7, <1>8

\* A field of a block is changed.
LEMMA DraftAltered ==
  ASSUME NEW b \in Drafts
  PROVE  /\ \A x \in 0..MaxBlocks : /\ [b EXCEPT !.prev = x] \in Drafts
                                    /\ [b EXCEPT !.prev = x].prev = x
                                    /\ [b EXCEPT !.prev = x].hash = b.hash
                                    /\ [b EXCEPT !.prev = x].depth = b.depth
         /\ \A x \in 0..MaxBlocks : /\ [b EXCEPT !.hash = x] \in Drafts
                                    /\ [b EXCEPT !.hash = x].prev = b.prev
                                    /\ [b EXCEPT !.hash = x].hash = x
                                    /\ [b EXCEPT !.hash = x].depth = b.depth
         /\ \A x \in Nat : /\ [b EXCEPT !.depth = x] \in Drafts
                           /\ [b EXCEPT !.depth = x].prev = b.prev
                           /\ [b EXCEPT !.depth = x].depth = x
         /\ \A x \in SUBSET Pool : /\ [b EXCEPT !.transactions = x] \in Drafts
                                   /\ [b EXCEPT !.transactions = x].prev = b.prev
                                   /\ [b EXCEPT !.transactions = x].depth = b.depth
         /\ \A x \in Sheets : /\ [b EXCEPT !.balances = x] \in Drafts
                              /\ [b EXCEPT !.balances = x].prev = b.prev
                              /\ [b EXCEPT !.balances = x].depth = b.depth
<1>1. \A x \in 0..MaxBlocks : /\ [b EXCEPT !.prev = x] \in Drafts
                              /\ [b EXCEPT !.prev = x].prev = x
                              /\ [b EXCEPT !.prev = x].hash = b.hash
                              /\ [b EXCEPT !.prev = x].depth = b.depth
  BY DEF Drafts
<1>2. \A x \in 0..MaxBlocks : /\ [b EXCEPT !.hash = x] \in Drafts
                              /\ [b EXCEPT !.hash = x].prev = b.prev
                              /\ [b EXCEPT !.hash = x].hash = x
                              /\ [b EXCEPT !.hash = x].depth = b.depth
  BY DEF Drafts
<1>3. \A x \in Nat : /\ [b EXCEPT !.depth = x] \in Drafts
                     /\ [b EXCEPT !.depth = x].prev = b.prev
                     /\ [b EXCEPT !.depth = x].depth = x
  BY DEF Drafts
<1>4. \A x \in SUBSET Pool : /\ [b EXCEPT !.transactions = x] \in Drafts
                             /\ [b EXCEPT !.transactions = x].prev = b.prev
                             /\ [b EXCEPT !.transactions = x].depth = b.depth
  BY DEF Drafts
<1>5. \A x \in Sheets : /\ [b EXCEPT !.balances = x] \in Drafts
                        /\ [b EXCEPT !.balances = x].prev = b.prev
                        /\ [b EXCEPT !.balances = x].depth = b.depth
  BY DEF Drafts
<1> QED BY <1>1, <1>2, <1>3, <1>4, <1>5

\* SetParent leaves a sound block sound.
LEMMA SoundAltered ==
  ASSUME NEW b \in Sound, NEW x \in 0..MaxBlocks
  PROVE  [b EXCEPT !.prev = x] \in Sound /\ [b EXCEPT !.prev = x].hash = b.hash
BY DEF Sound

\* In a new block all accounts are empty.
LEMMA FreshDraft ==
  ASSUME NEW prev \in 0..MaxBlocks, NEW depth \in Nat
  PROVE  Fresh(prev, depth) \in Drafts
<1>1. [a \in Accounts |-> 0] \in Sheets
  BY DEF Sheets
<1>2. MaxBlocks \in Nat
  BY ChainAssumption
<1> QED BY <1>1, <1>2 DEF Fresh, Drafts

\* Transactions are changed by who hears of them, and by the miner that takes them.
LEMMA PoolChanges ==
  ASSUME Next, ~UNCHANGED pool
  PROVE  \E p \in Nodes : Collect(p) \/ Announce(p) \/ \E q \in Nodes : Enter(p, q)
<1>1. PICK p \in Nodes :
        \/ MinerStep(p) \/ Announce(p)
        \/ Solved(p) \/ SolvedUnexpectedly(p) \/ ClerkStep(p)
        \/ \E q \in Nodes : <<q, p>> \in Links /\ ListenerStep(p, q)
        \/ MapFault(p)
  BY DEF Next
<1>2. ~Die(p)
  BY DEF Die
<1>3. ~Solved(p) /\ ~SolvedUnexpectedly(p) /\ ~MapFault(p) /\ ~RenewNil(p)
  BY <1>2 DEF Solved, SolvedUnexpectedly, MapFault, RenewNil
<1>4. MinerStep(p) => Collect(p)
  BY <1>3 DEF MinerStep, ReadParent, ReadDepth, calculateAccountBalances, Solve,
              Publish, Renew, besideMiner, pool
<1>5. ~ClerkStep(p)
  BY <1>2 DEF ClerkStep, VerifyFails, blockVerified, Store, SetHash, KeepChain, SetDepth,
              SetParent, FinishMined, FinishVerified, besideMiner, besideClerk, pool
<1>6. ASSUME NEW q \in Nodes
      PROVE  ~Drop(p, q) /\ ~HearTransaction(p, q) /\ ~HearBlock(p, q) /\ ~RelayBlock(p, q)
  BY DEF Drop, HearTransaction, HearBlock, RelayBlock
<1> QED BY <1>1, <1>3, <1>4, <1>5, <1>6 DEF ListenerStep

LEMMA PoolSoundStep ==
  ASSUME AllSound, [Next]_vars
  PROVE  PoolSound'
<1>1. CASE UNCHANGED pool
  BY <1>1 DEF AllSound, PoolSound, pool
<1>2. CASE ~UNCHANGED pool
  <2>1. Next
    BY <1>2 DEF vars
  <2>2. /\ transactions \in [Nodes -> SUBSET Pool]
        /\ transactionsBuff \in [Nodes -> SUBSET Pool]
        /\ announced \in Nat
        /\ \A p \in Nodes : transactionsBuff[p] \subseteq transactions[p]
    BY DEF AllSound, PoolSound
  <2>3. PICK p \in Nodes : Collect(p) \/ Announce(p) \/ \E q \in Nodes : Enter(p, q)
    BY <1>2, <2>1, PoolChanges
  <2>4. CASE Collect(p)
    <3>1. /\ transactionsBuff' = [transactionsBuff EXCEPT ![p] = {}]
          /\ UNCHANGED <<transactions, announced>>
      BY <2>4 DEF Collect, besideMiner
    <3> QED BY <2>2, <3>1 DEF PoolSound
  <2>5. CASE Announce(p)
    <3> DEFINE t == Transactions[announced + 1]
    <3>1. /\ announced < Len(Transactions) /\ announced' = announced + 1
          /\ transactions' = [transactions EXCEPT ![p] = transactions[p] \cup {t}]
          /\ UNCHANGED transactionsBuff
      BY <2>5 DEF Announce
    <3>2. t \in Pool
      BY <2>2, <3>1, PoolMoney
    <3> HIDE DEF t
    <3>3. transactions' \in [Nodes -> SUBSET Pool] /\ announced' \in Nat
      BY <2>2, <3>1, <3>2
    <3>4. \A r \in Nodes : transactionsBuff'[r] \subseteq transactions'[r]
      BY <2>2, <3>1
    <3> QED BY <2>2, <3>1, <3>3, <3>4 DEF PoolSound
  <2>6. CASE \E q \in Nodes : Enter(p, q)
    <3>0. PICK q \in Nodes : Enter(p, q)
      BY <2>6
    <3> DEFINE t == listener[p][q].item
    <3>1. /\ listener[p][q].at = "enter"
          /\ transactions' = [transactions EXCEPT ![p] = transactions[p] \cup {t}]
          /\ transactionsBuff' = [transactionsBuff EXCEPT ![p] = transactionsBuff[p] \cup {t}]
          /\ UNCHANGED announced
      BY <3>0 DEF Enter, besideListener
    <3>2. listener[p][q] \in Hearing
      BY DEF AllSound, GossipSound
    <3>3. t \in Pool
      BY <3>1, <3>2 DEF Hearing
    <3> HIDE DEF t
    <3>4. transactions' \in [Nodes -> SUBSET Pool] /\ transactionsBuff' \in [Nodes -> SUBSET Pool]
      BY <2>2, <3>1, <3>3
    <3>5. \A r \in Nodes : transactionsBuff'[r] \subseteq transactions'[r]
      BY <2>2, <3>1
    <3> QED BY <2>2, <3>1, <3>4, <3>5 DEF PoolSound
  <2> QED BY <2>3, <2>4, <2>5, <2>6
<1> QED BY <1>1, <1>2

\* What a node has a block of, it keeps a block of.
LEMMA KnownStays ==
  ASSUME ChainShape, [Next]_vars, NEW p \in Nodes, NEW h, Founded(blocks[p], h)
  PROVE  Founded(blocks'[p], h)
<1>1. CASE blocks'[p] = blocks[p]
  BY <1>1
<1>2. CASE blocks'[p] # blocks[p]
  <2>1. Next /\ ~UNCHANGED <<chain, longest, clerk>>
    BY <1>2 DEF vars, chain
  <2>2. PICK r \in Nodes :
            \/ Solved(r) \/ blockVerified(r) \/ Store(r) \/ SetHash(r) \/ KeepChain(r)
            \/ SetDepth(r) \/ SetParent(r) \/ FinishMined(r) \/ FinishVerified(r)
            \/ \E q \in Nodes : HearBlock(r, q)
    BY <2>1, ChainChanges
  <2>3. Store(r) \/ SetParent(r)
    BY <1>2, <2>2 DEF Solved, blockVerified, SetHash, KeepChain, SetDepth, FinishMined,
                      FinishVerified, HearBlock, chain, Die
  <2>4. \E b : blocks' = [blocks EXCEPT ![r] = Put(blocks[r], b)]
    <3>1. CASE Store(r)
      BY <3>1 DEF Store
    <3>2. CASE SetParent(r)
      <4>1. PICK b : blocks' = [blocks EXCEPT ![r] =
                         IF solvingBlock[r] \in blocks[r] THEN Put(blocks[r], b) ELSE blocks[r]]
        BY <1>2, <3>2 DEF SetParent
      <4>2. OfNodes(blocks)
        BY DEF ChainShape
      <4>3. solvingBlock[r] \in blocks[r]
        BY <1>2, <4>1, <4>2 DEF OfNodes
      <4> QED BY <4>1, <4>3
    <3> QED BY <2>3, <3>1, <3>2
  <2>5. PICK b : blocks' = [blocks EXCEPT ![r] = Put(blocks[r], b)]
    BY <2>4
  <2>6. OfNodes(blocks)
    BY DEF ChainShape
  <2>7. blocks'[p] = Put(blocks[p], b)
    BY <1>2, <2>5, <2>6 DEF OfNodes
  <2>8. h = 0 \/ Known(blocks'[p], h)
    BY <2>7, Puts DEF Founded
  <2> QED BY <2>8 DEF Founded
<1> QED BY <1>1, <1>2

\* A hash that is a parent's is a number there is.
LEMMA FoundedIn ==
  ASSUME NEW set, set \subseteq Sound, NEW h, Founded(set, h)
  PROVE  h \in 0..MaxBlocks
BY ChainAssumption DEF Founded, Known, Sound, Hashes

LEMMA MinerSoundStep ==
  ASSUME Shape, AllSound, [Next]_vars
  PROVE  MinerSound'
<1>1. ChainShape
  BY DEF Shape
<1>2. /\ currentBlock \in [Nodes -> Drafts]
      /\ solvingBlock \in [Nodes -> Sound \cup {NoBlock}]
      /\ \A r \in Nodes : Filled(miner[r], currentBlock[r], blocks[r])
  BY DEF AllSound, MinerSound
<1>3. ASSUME NEW r \in Nodes, NEW place, NEW b, Filled(place, b, blocks[r])
      PROVE  Filled(place, b, blocks'[r])
  <2>1. Founded(blocks[r], b.prev) => Founded(blocks'[r], b.prev)
    BY <1>1, KnownStays
  <2> QED BY <1>3, <2>1 DEF Filled
<1>4. CASE UNCHANGED mining
  <2>1. \A r \in Nodes : Filled(miner'[r], currentBlock'[r], blocks'[r])
    BY <1>2, <1>3, <1>4 DEF mining
  <2> QED BY <1>2, <1>4, <2>1 DEF MinerSound, mining
<1>5. CASE ~UNCHANGED mining
  <2>1. Next
    BY <1>5 DEF vars
  <2>2. PICK p \in Nodes :
            \/ Collect(p) \/ ReadParent(p) \/ ReadDepth(p)
            \/ calculateAccountBalances(p) \/ Solve(p) \/ Publish(p) \/ Renew(p)
            \/ SetParent(p) \/ FinishMined(p)
    BY <1>5, <2>1, MiningChanges
  <2> DEFINE b == currentBlock[p]
             s == solvingBlock[p]
  <2>3. /\ b \in Drafts /\ s \in Sound \cup {NoBlock} /\ Filled(miner[p], b, blocks[p])
        /\ OfNodes(miner) /\ MaxBlocks \in Nat
    BY <1>2, ChainAssumption DEF Shape, MiningShape
  <2>4. /\ blocks[p] \subseteq Sound /\ transactionsBuff[p] \subseteq Pool
        /\ Founded(blocks[p], longestChainHash[p]) /\ longestChainDepth[p] \in Nat
    BY <1>1 DEF AllSound, ChainSound, PoolSound, ChainShape
  <2>5. ASSUME NEW c \in Drafts, NEW n \in Sound \cup {NoBlock}, NEW place,
               currentBlock' = [currentBlock EXCEPT ![p] = c],
               solvingBlock' = [solvingBlock EXCEPT ![p] = n],
               miner' = [miner EXCEPT ![p] = place],
               Filled(place, c, blocks[p])
        PROVE  MinerSound'
    <3>1. /\ currentBlock' \in [Nodes -> Drafts]
          /\ solvingBlock' \in [Nodes -> Sound \cup {NoBlock}]
      BY <1>2, <2>5
    <3>2. currentBlock'[p] = c /\ miner'[p] = place
      BY <1>2, <2>3, <2>5 DEF OfNodes
    <3>3. \A r \in Nodes : r # p => currentBlock'[r] = currentBlock[r] /\ miner'[r] = miner[r]
      BY <1>2, <2>3, <2>5 DEF OfNodes
    <3>4. ASSUME NEW r \in Nodes
          PROVE  Filled(miner'[r], currentBlock'[r], blocks'[r])
      <4>1. CASE r = p
        BY <1>3, <2>5, <3>2, <4>1
      <4>2. CASE r # p
        BY <1>2, <1>3, <3>3, <4>2
      <4> QED BY <4>1, <4>2
    <3> QED BY <3>1, <3>4 DEF MinerSound
  <2>6. /\ solvingBlock = [solvingBlock EXCEPT ![p] = s]
        /\ currentBlock = [currentBlock EXCEPT ![p] = b]
        /\ miner = [miner EXCEPT ![p] = miner[p]]
    BY <1>2, <2>3 DEF OfNodes
  <2>7. CASE Collect(p)
    <3> DEFINE c == [b EXCEPT !.transactions = b.transactions \cup transactionsBuff[p]]
    <3>1. /\ currentBlock' = [currentBlock EXCEPT ![p] = c]
          /\ miner' = [miner EXCEPT ![p] = "parent"]
          /\ UNCHANGED solvingBlock
      BY <2>7 DEF Collect, MinerMove
    <3>2. b.transactions \cup transactionsBuff[p] \in SUBSET Pool
      BY <2>3, <2>4 DEF Drafts
    <3> HIDE DEF b, s
    <3>3. c \in Drafts
      BY <2>3, <3>2, DraftAltered
    <3>4. Filled("parent", c, blocks[p])
      BY DEF Filled
    <3> HIDE DEF c
    <3> QED BY <2>3, <2>5, <2>6, <3>1, <3>3, <3>4
  <2>8. CASE ReadParent(p)
    <3> DEFINE x == longestChainHash[p]
               c == [b EXCEPT !.prev = x]
    <3>1. /\ currentBlock' = [currentBlock EXCEPT ![p] = c]
          /\ miner' = [miner EXCEPT ![p] = "depth"]
          /\ UNCHANGED solvingBlock
      BY <2>8 DEF ReadParent, MinerMove
    <3>2. x \in 0..MaxBlocks
      BY <2>4, FoundedIn
    <3> HIDE DEF b, s
    <3>3. c \in Drafts /\ c.prev = x
      <4> HIDE DEF x
      <4> QED BY <2>3, <3>2, DraftAltered
    <3> HIDE DEF c
    <3>4. Filled("depth", c, blocks[p])
      BY <2>4, <3>3 DEF Filled
    <3> QED BY <2>3, <2>5, <2>6, <3>1, <3>3, <3>4
  <2>9. CASE ReadDepth(p)
    <3> DEFINE x == longestChainDepth[p] + 1
               c == [b EXCEPT !.depth = x]
    <3>1. /\ currentBlock' = [currentBlock EXCEPT ![p] = c]
          /\ miner[p] = "depth" /\ miner' = [miner EXCEPT ![p] = "balance"]
          /\ UNCHANGED solvingBlock
      BY <2>9 DEF ReadDepth, MinerMove
    <3>2. x \in Nat /\ x # 0
      BY <2>4
    <3> HIDE DEF b, s, x
    <3>3. c \in Drafts /\ c.prev = b.prev /\ c.depth = x
      BY <2>3, <3>2, DraftAltered
    <3> HIDE DEF c
    <3>4. Filled("balance", c, blocks[p])
      BY <2>3, <3>1, <3>2, <3>3 DEF Filled
    <3> QED BY <2>3, <2>5, <2>6, <3>1, <3>3, <3>4
  <2>10. CASE calculateAccountBalances(p)
    <3> DEFINE parent == IF b.prev = 0 THEN Fresh(0, 0) ELSE Block(blocks[p], b.prev)
               new == b.transactions \ parent.transactions
    <3>1. /\ miner[p] = "balance" /\ miner' = [miner EXCEPT ![p] = "hash"]
          /\ UNCHANGED solvingBlock
          /\ \E order \in SetToSeqs(new) : currentBlock' = [currentBlock EXCEPT
                ![p].transactions = new,
                ![p].balances = FoldLeft(Apply, parent.balances, order)]
      BY <2>10 DEF calculateAccountBalances, MinerMove
    <3>2. parent \in Drafts
      <4>1. CASE b.prev = 0
        BY <2>3, <4>1, FreshDraft
      <4>2. CASE b.prev # 0
        <5>1. Known(blocks[p], b.prev)
          BY <2>3, <3>1, <4>2 DEF Filled, Founded
        <5> HIDE DEF b
        <5>2. Block(blocks[p], b.prev) \in blocks[p]
          BY <5>1, Finds
        <5> QED BY <2>4, <4>2, <5>2, SoundAre
      <4> QED BY <4>1, <4>2
    <3> HIDE DEF parent
    <3>3. PICK order \in SetToSeqs(new) : currentBlock' = [currentBlock EXCEPT
             ![p].transactions = new,
             ![p].balances = FoldLeft(Apply, parent.balances, order)]
      BY <3>1
    <3>4. parent.balances \in Sheets /\ new \in SUBSET Pool
      BY <2>3, <3>2 DEF Drafts
    <3> DEFINE sheet == FoldLeft(Apply, parent.balances, order)
    <3>5. sheet \in Sheets
      BY <3>4, OrdersSound
    <3> HIDE DEF new, sheet
    <3> DEFINE d == [b EXCEPT !.transactions = new]
               c == [d EXCEPT !.balances = sheet]
    <3>6. currentBlock' = [currentBlock EXCEPT ![p].transactions = new, ![p].balances = sheet]
      BY <3>3 DEF sheet
    <3>7. currentBlock' = [currentBlock EXCEPT ![p] = c]
      BY <1>2, <3>6
    <3> HIDE DEF b, s
    <3>8. d \in Drafts /\ d.prev = b.prev /\ d.depth = b.depth
      BY <2>3, <3>4, DraftAltered
    <3> HIDE DEF d
    <3>9. c \in Drafts /\ c.prev = b.prev /\ c.depth = b.depth
      BY <3>5, <3>8, DraftAltered
    <3> HIDE DEF c
    <3>10. Filled("hash", c, blocks[p])
      BY <2>3, <3>1, <3>9 DEF Filled
    <3> QED BY <2>3, <2>5, <2>6, <3>1, <3>7, <3>9, <3>10
  <2>11. CASE Solve(p)
    <3>1. PICK x \in blockHash(Content(b)) :
             /\ currentBlock' = [currentBlock EXCEPT ![p] = [b EXCEPT !.hash = x]]
             /\ miner[p] = "hash" /\ miner' = [miner EXCEPT ![p] = "publish"]
             /\ UNCHANGED solvingBlock
      BY <2>11 DEF Solve, MinerMove
    <3>2. x \in Hashes
      BY DEF blockHash, Shape, MiningShape
    <3>3. x \in 0..MaxBlocks /\ x # 0
      BY <2>3, <3>2 DEF Hashes
    <3> DEFINE c == [b EXCEPT !.hash = x]
    <3> HIDE DEF b, s
    <3>4. c \in Drafts /\ c.prev = b.prev /\ c.depth = b.depth /\ c.hash = x
      BY <2>3, <3>3, DraftAltered
    <3> HIDE DEF c
    <3>5. Filled("publish", c, blocks[p])
      BY <2>3, <3>1, <3>3, <3>4 DEF Filled
    <3>6. currentBlock' = [currentBlock EXCEPT ![p] = c]
      BY <3>1 DEF c
    <3> QED BY <2>3, <2>5, <2>6, <3>1, <3>4, <3>5, <3>6
  <2>12. CASE Publish(p)
    <3>1. /\ solvingBlock' = [solvingBlock EXCEPT ![p] = b]
          /\ miner[p] = "publish" /\ miner' = [miner EXCEPT ![p] = "renew"]
          /\ UNCHANGED currentBlock
      BY <2>12 DEF Publish, MinerMove
    <3> HIDE DEF b, s
    <3>2. b \in Sound
      BY <2>3, <3>1, SoundAre DEF Filled
    <3>3. Filled("renew", b, blocks[p])
      BY <2>3, <3>1 DEF Filled
    <3> QED BY <2>3, <2>5, <2>6, <3>1, <3>2, <3>3
  <2>13. CASE Renew(p)
    <3> DEFINE c == Fresh(s.hash, s.depth + 1)
    <3>1. /\ currentBlock' = [currentBlock EXCEPT ![p] = c]
          /\ miner' = [miner EXCEPT ![p] = "idle"]
          /\ s # NoBlock
          /\ UNCHANGED solvingBlock
      BY <2>13 DEF Renew, MinerMove
    <3> HIDE DEF b, s
    <3>2. s.hash \in 0..MaxBlocks /\ s.depth + 1 \in Nat
      BY <2>3, <3>1 DEF Sound, Hashes
    <3>3. c \in Drafts
      BY <3>2, FreshDraft
    <3> HIDE DEF c
    <3>4. Filled("idle", c, blocks[p])
      BY DEF Filled
    <3> QED BY <2>3, <2>5, <2>6, <3>1, <3>3, <3>4
  <2>14. CASE SetParent(p)
    <3> DEFINE x == clerk[p].item.hash
               c == [b EXCEPT !.prev = x]
               n == [s EXCEPT !.prev = x]
    <3>1. /\ currentBlock' = [currentBlock EXCEPT ![p] = c]
          /\ clerk[p].at = "parent" /\ UNCHANGED miner
          /\ \/ UNCHANGED solvingBlock
             \/ s # NoBlock /\ solvingBlock' = [solvingBlock EXCEPT ![p] = n]
      BY <2>14 DEF SetParent, ClerkMove, besideClerk
    <3>2. Known(blocks[p], x)
      BY <1>1, <3>1 DEF ChainShape
    <3>3. Founded(blocks[p], x) /\ x \in 0..MaxBlocks
      BY <2>4, <3>2, FoundedIn DEF Founded
    <3> HIDE DEF b, s, x
    <3>4. c \in Drafts /\ c.prev = x /\ c.hash = b.hash /\ c.depth = b.depth
      BY <2>3, <3>3, DraftAltered
    <3>5. s # NoBlock => n \in Sound
      BY <2>3, <3>3, SoundAltered
    <3> HIDE DEF c, n
    <3>6. Filled(miner[p], c, blocks[p])
      BY <2>3, <3>3, <3>4 DEF Filled
    <3>7. CASE UNCHANGED solvingBlock
      BY <2>3, <2>5, <2>6, <3>1, <3>4, <3>6, <3>7
    <3>8. CASE s # NoBlock /\ solvingBlock' = [solvingBlock EXCEPT ![p] = n]
      BY <2>3, <2>5, <2>6, <3>1, <3>4, <3>5, <3>6, <3>8
    <3> QED BY <3>1, <3>7, <3>8
  <2>15. CASE FinishMined(p)
    <3>1. /\ solvingBlock' = [solvingBlock EXCEPT ![p] = NoBlock]
          /\ UNCHANGED <<currentBlock, miner>>
      BY <2>15 DEF FinishMined, besideClerk
    <3> HIDE DEF b, s
    <3> QED BY <2>3, <2>5, <2>6, <3>1
  <2> QED BY <2>2, <2>7, <2>8, <2>9, <2>10, <2>11, <2>12, <2>13, <2>14, <2>15
<1> QED BY <1>4, <1>5

LEMMA PutSound ==
  ASSUME NEW set, set \subseteq Sound, OnePerHash(set), NEW b \in Sound
  PROVE  Put(set, b) \subseteq Sound /\ OnePerHash(Put(set, b))
BY DEF Put, OnePerHash

LEMMA ChainSoundStep ==
  ASSUME Shape, AllSound, [Next]_vars
  PROVE  ChainSound'
<1> DEFINE Owns(set, unverified, c) ==
      /\ set \subseteq Sound /\ unverified \subseteq Sound
      /\ OnePerHash(set) /\ OnePerHash(unverified)
      /\ c.at = "idle" => c.item = NoBlock
      /\ c.at # "idle" => c.item \in Sound
<1>1. ChainShape
  BY DEF Shape
<1>2. /\ blocks \in [Nodes -> SUBSET Sound] /\ unverifiedBlocks \in [Nodes -> SUBSET Sound]
      /\ OfNodes(clerk) /\ longestChainHash \in [Nodes -> Nat]
      /\ \A r \in Nodes : Owns(blocks[r], unverifiedBlocks[r], clerk[r])
      /\ \A r \in Nodes : Founded(blocks[r], longestChainHash[r])
  BY <1>1 DEF AllSound, ChainSound, ChainShape
<1>3. CASE UNCHANGED <<chain, longest, clerk>>
  BY <1>2, <1>3 DEF ChainSound, chain, longest, OnePerHash, Founded, Known
<1>4. CASE ~UNCHANGED <<chain, longest, clerk>>
  <2>1. Next
    BY <1>4 DEF vars
  <2>2. PICK p \in Nodes :
            \/ Solved(p) \/ blockVerified(p) \/ Store(p) \/ SetHash(p) \/ KeepChain(p)
            \/ SetDepth(p) \/ SetParent(p) \/ FinishMined(p) \/ FinishVerified(p)
            \/ \E q \in Nodes : HearBlock(p, q)
    BY <1>4, <2>1, ChainChanges
  <2> DEFINE set == blocks[p]
             new == unverifiedBlocks[p]
             item == clerk[p].item
             s == solvingBlock[p]
  <2>3. /\ Owns(set, new, clerk[p]) /\ s \in Sound \cup {NoBlock}
        /\ clerk[p] = Working(clerk[p].at, item, clerk[p].mined)
        /\ clerk[p].at \notin {"idle", "store"} => Known(set, item.hash)
        /\ ~Die(p)
    BY <1>1, <1>2, <1>4 DEF AllSound, MinerSound, ChainShape, Die
  <2>4. ASSUME NEW a \in SUBSET Sound, NEW u \in SUBSET Sound, NEW c, NEW h,
               blocks' = [blocks EXCEPT ![p] = a],
               unverifiedBlocks' = [unverifiedBlocks EXCEPT ![p] = u],
               clerk' = [clerk EXCEPT ![p] = c],
               longestChainHash' = [longestChainHash EXCEPT ![p] = h],
               Owns(a, u, c),
               h = longestChainHash[p] \/ Founded(set, h)
        PROVE  ChainSound'
    <3>1. blocks' \in [Nodes -> SUBSET Sound] /\ unverifiedBlocks' \in [Nodes -> SUBSET Sound]
      BY <1>2, <2>4
    <3>2. /\ blocks'[p] = a /\ unverifiedBlocks'[p] = u /\ clerk'[p] = c
          /\ longestChainHash'[p] = h
      BY <1>2, <2>4 DEF OfNodes
    <3>3. \A r \in Nodes : r # p =>
             /\ blocks'[r] = blocks[r] /\ unverifiedBlocks'[r] = unverifiedBlocks[r]
             /\ clerk'[r] = clerk[r] /\ longestChainHash'[r] = longestChainHash[r]
      BY <1>2, <2>4 DEF OfNodes
    <3>4. \A r \in Nodes : Founded(blocks[r], longestChainHash'[r])
      BY <1>2, <2>4, <3>2, <3>3
    <3>5. ASSUME NEW r \in Nodes
          PROVE  /\ Owns(blocks'[r], unverifiedBlocks'[r], clerk'[r])
                 /\ Founded(blocks'[r], longestChainHash'[r])
      <4> HIDE DEF Owns
      <4>1. Founded(blocks'[r], longestChainHash'[r])
        BY <1>1, <3>4, KnownStays
      <4>2. CASE r = p
        BY <2>4, <3>2, <4>1, <4>2
      <4>3. CASE r # p
        BY <1>2, <3>3, <4>1, <4>3
      <4> QED BY <4>2, <4>3
    <3>6. (\A r \in Nodes :
             /\ OnePerHash(blocks[r]) /\ OnePerHash(unverifiedBlocks[r])
             /\ clerk[r].at = "idle" => clerk[r].item = NoBlock
             /\ clerk[r].at # "idle" => clerk[r].item \in Sound
             /\ Founded(blocks[r], longestChainHash[r]))'
      BY <3>5 DEF OnePerHash, Founded, Known
    <3> QED BY <3>1, <3>6 DEF ChainSound
  <2>5. /\ blocks = [blocks EXCEPT ![p] = set]
        /\ unverifiedBlocks = [unverifiedBlocks EXCEPT ![p] = new]
        /\ clerk = [clerk EXCEPT ![p] = clerk[p]]
        /\ longestChainHash = [longestChainHash EXCEPT ![p] = longestChainHash[p]]
    BY <1>2 DEF OfNodes
  \* The clerk moves on with its block, and does nothing else but what is said.
  <2>6. ASSUME NEW from, NEW to, ClerkMove(p, from, to), from # "idle", to # "idle"
        PROVE  /\ clerk[p].at = from /\ item \in Sound
               /\ clerk' = [clerk EXCEPT ![p] = Working(to, item, clerk[p].mined)]
               /\ \A a, u : Owns(a, u, clerk[p]) => Owns(a, u, Working(to, item, clerk[p].mined))
    <3>1. clerk[p].at = from /\ clerk' = [clerk EXCEPT ![p] = [clerk[p] EXCEPT !.at = to]]
      BY <2>6 DEF ClerkMove
    <3>2. [clerk[p] EXCEPT !.at = to] = Working(to, item, clerk[p].mined)
      BY <2>3 DEF Working
    <3>3. item \in Sound
      BY <2>3, <2>6, <3>1
    <3> QED BY <2>6, <3>1, <3>2, <3>3 DEF Working
  <2>7. CASE Solved(p)
    <3> DEFINE c == Working("store", s, TRUE)
    <3>1. /\ UNCHANGED <<blocks, unverifiedBlocks, longestChainHash>>
          /\ clerk' = [clerk EXCEPT ![p] = c] /\ s # NoBlock
      BY <2>7 DEF Solved, Expected, chain, longest
    <3>2. Owns(set, new, c)
      BY <2>3, <3>1 DEF Working
    <3> HIDE DEF c, set, new, s, item, Owns
    <3> QED BY <2>3, <2>4, <2>5, <3>1, <3>2 DEF Owns
  <2>8. CASE blockVerified(p)
    <3> DEFINE hash == Head(service[p].verify).hash
               c == Working("store", Block(new, hash), FALSE)
               left == {b \in new : b.hash # hash}
    <3>1. /\ Known(new, hash) /\ clerk' = [clerk EXCEPT ![p] = c]
          /\ unverifiedBlocks' = [unverifiedBlocks EXCEPT ![p] = left]
          /\ UNCHANGED <<longestChainHash, blocks>>
      BY <2>3, <2>8 DEF blockVerified, longest
    <3>2. Block(new, hash) \in new
      <4> HIDE DEF hash, new
      <4> QED BY <3>1, Finds
    <3> HIDE DEF hash
    <3>3. Owns(set, left, c)
      BY <2>3, <3>2 DEF Working, OnePerHash
    <3>4. left \in SUBSET Sound /\ set \in SUBSET Sound
      BY <2>3
    <3> HIDE DEF c, set, new, s, item, left, Owns
    <3> QED BY <2>4, <2>5, <3>1, <3>3, <3>4
  <2>9. CASE Store(p)
    <3> DEFINE c == Working("compare", item, clerk[p].mined)
               a == Put(set, item)
    <3>1. /\ ClerkMove(p, "store", "compare") /\ blocks' = [blocks EXCEPT ![p] = a]
          /\ UNCHANGED <<longestChainHash, unverifiedBlocks>>
      BY <2>9 DEF Store, longest
    <3>2. /\ item \in Sound /\ clerk' = [clerk EXCEPT ![p] = c]
          /\ \A x, y : Owns(x, y, clerk[p]) => Owns(x, y, c)
      BY <2>6, <3>1
    <3>3. a \subseteq Sound /\ OnePerHash(a)
      <4> HIDE DEF set, item
      <4> QED BY <2>3, <3>2, PutSound
    <3> HIDE DEF a, c, set, new, item, s
    <3>4. Owns(a, new, c) /\ a \in SUBSET Sound /\ new \in SUBSET Sound
      BY <2>3, <3>2, <3>3
    <3> HIDE DEF Owns
    <3> QED BY <2>4, <2>5, <3>1, <3>2, <3>4
  <2>10. CASE SetHash(p)
    <3>1. PICK to \in {"deepen", "parent"} : ClerkMove(p, "compare", to)
      BY <2>10 DEF SetHash
    <3> DEFINE c == Working(to, item, clerk[p].mined)
               h == item.hash
    <3>2. /\ longestChainHash' = [longestChainHash EXCEPT ![p] = h]
          /\ UNCHANGED <<blocks, unverifiedBlocks>>
      BY <2>10 DEF SetHash, chain
    <3>3. /\ clerk[p].at = "compare" /\ clerk' = [clerk EXCEPT ![p] = c]
          /\ \A x, y : Owns(x, y, clerk[p]) => Owns(x, y, c)
      BY <2>6, <3>1
    <3>4. Founded(set, h)
      BY <2>3, <3>3 DEF Founded
    <3> HIDE DEF c, h, set, new, item, s
    <3>5. Owns(set, new, c) /\ set \in SUBSET Sound /\ new \in SUBSET Sound
      BY <2>3, <3>3
    <3> HIDE DEF Owns
    <3> QED BY <2>4, <2>5, <3>2, <3>3, <3>4, <3>5
  <2>11. CASE KeepChain(p) \/ SetDepth(p)
    <3>1. PICK from \in {"compare", "deepen"}, to \in {"parent", "done"} : ClerkMove(p, from, to)
      BY <2>11 DEF KeepChain, SetDepth
    <3> DEFINE c == Working(to, item, clerk[p].mined)
    <3>2. UNCHANGED <<blocks, unverifiedBlocks, longestChainHash>>
      BY <2>11 DEF KeepChain, SetDepth, chain, longest
    <3>3. /\ clerk' = [clerk EXCEPT ![p] = c]
          /\ \A x, y : Owns(x, y, clerk[p]) => Owns(x, y, c)
      BY <2>6, <3>1
    <3> HIDE DEF c, set, new, item, s
    <3>4. Owns(set, new, c) /\ set \in SUBSET Sound /\ new \in SUBSET Sound
      BY <2>3, <3>3
    <3> HIDE DEF Owns
    <3> QED BY <2>4, <2>5, <3>2, <3>3, <3>4
  <2>12. CASE SetParent(p)
    <3> DEFINE c == Working("done", item, clerk[p].mined)
               altered == [s EXCEPT !.prev = item.hash]
               a == IF s \in set THEN Put(set, altered) ELSE set
    <3>1. /\ ClerkMove(p, "parent", "done")
          /\ UNCHANGED <<unverifiedBlocks, longestChainHash>>
          /\ UNCHANGED blocks \/ (s # NoBlock /\ blocks' = [blocks EXCEPT ![p] = a])
      BY <2>12 DEF SetParent, longest
    <3>2. /\ clerk[p].at = "parent" /\ item \in Sound /\ clerk' = [clerk EXCEPT ![p] = c]
          /\ \A x, y : Owns(x, y, clerk[p]) => Owns(x, y, c)
      BY <2>6, <3>1
    <3>3. item.hash \in 0..MaxBlocks
      BY <3>2, ChainAssumption DEF Sound, Hashes
    <3>4. s # NoBlock => altered \in Sound
      <4> HIDE DEF s, item
      <4> QED BY <2>3, <3>3, SoundAltered
    <3> HIDE DEF altered, set, new, item, s, c
    <3>5. s # NoBlock => a \subseteq Sound /\ OnePerHash(a)
      BY <2>3, <3>4, PutSound
    <3>6. /\ s # NoBlock => Owns(a, new, c) /\ a \in SUBSET Sound
          /\ Owns(set, new, c) /\ set \in SUBSET Sound /\ new \in SUBSET Sound
      BY <2>3, <3>2, <3>5
    <3> HIDE DEF Owns, a
    <3>7. CASE UNCHANGED blocks
      BY <2>4, <2>5, <3>1, <3>2, <3>6, <3>7
    <3>8. CASE s # NoBlock /\ blocks' = [blocks EXCEPT ![p] = a]
      BY <2>4, <2>5, <3>1, <3>2, <3>6, <3>8
    <3> QED BY <3>1, <3>7, <3>8
  <2>13. CASE FinishMined(p) \/ FinishVerified(p)
    <3>1. /\ UNCHANGED <<blocks, unverifiedBlocks, longestChainHash>>
          /\ clerk' = [clerk EXCEPT ![p] = Resting]
      BY <2>13 DEF FinishMined, FinishVerified, chain, longest
    <3>2. Owns(set, new, Resting) /\ set \in SUBSET Sound /\ new \in SUBSET Sound
      BY <2>3 DEF Resting, Working
    <3> HIDE DEF set, new, s, item, Owns
    <3> QED BY <2>4, <2>5, <3>1, <3>2
  <2>14. CASE \E q \in Nodes : HearBlock(p, q)
    <3>0. PICK q \in Nodes : HearBlock(p, q)
      BY <2>14
    <3> DEFINE b == Heard(p, q)
               u == new \cup {b}
    <3>1. /\ unverifiedBlocks' = [unverifiedBlocks EXCEPT ![p] = u]
          /\ UNCHANGED <<blocks, clerk, longestChainHash>>
          /\ channel[q][p] # <<>> /\ Head(channel[q][p]).type = "BLOCK_SOLVED"
          /\ ~Known(new, b.hash)
      BY <3>0 DEF HearBlock, Hear, KnownHere, longest
    <3>2. b \in Sound
      <4>1. channel[q][p] \in Seq(Lines)
        BY DEF AllSound, GossipSound
      <4>2. Head(channel[q][p]) \in Lines
        BY <3>1, <4>1
      <4> QED BY <3>1, <4>2 DEF Heard, Lines
    <3> HIDE DEF b
    <3>3. Owns(set, u, clerk[p]) /\ set \in SUBSET Sound /\ u \in SUBSET Sound
      BY <2>3, <3>1, <3>2 DEF OnePerHash, Known
    <3> HIDE DEF set, new, s, item, u, Owns
    <3> QED BY <2>4, <2>5, <3>1, <3>3
  <2> QED BY <2>2, <2>7, <2>8, <2>9, <2>10, <2>11, <2>12, <2>13, <2>14
<1> QED BY <1>3, <1>4

Wires == [Nodes -> [Nodes -> Seq(Lines)]]

LEMMA MulticastSound ==
  ASSUME NEW lines \in Wires, NEW p \in Nodes, NEW line \in Lines
  PROVE  Multicast(lines, p, line) \in Wires
<1> DEFINE row == [q \in Nodes |->
                     IF <<p, q>> \in Links THEN Append(lines[p][q], line) ELSE lines[p][q]]
<1>1. \A q \in Nodes : Append(lines[p][q], line) \in Seq(Lines) /\ lines[p][q] \in Seq(Lines)
  BY AppendProperties DEF Wires
<1>2. row \in [Nodes -> Seq(Lines)]
  BY <1>1
<1>3. Multicast(lines, p, line) = [lines EXCEPT ![p] = row]
  BY DEF Multicast
<1> HIDE DEF row
<1> QED BY <1>2, <1>3 DEF Wires

LEMMA RestSound ==
  ASSUME channel \in Wires, NEW p \in Nodes, NEW q \in Nodes, channel[q][p] # <<>>
  PROVE  Rest(p, q) \in Wires /\ Head(channel[q][p]) \in Lines
<1>1. channel[q] \in [Nodes -> Seq(Lines)] /\ channel[q][p] \in Seq(Lines)
  BY DEF Wires
<1>2. Tail(channel[q][p]) \in Seq(Lines) /\ Head(channel[q][p]) \in Lines
  BY <1>1, HeadTailProperties
<1>3. Rest(p, q) = [channel EXCEPT ![q] = [channel[q] EXCEPT ![p] = Tail(channel[q][p])]]
  BY DEF Rest
<1> QED BY <1>1, <1>2, <1>3 DEF Wires

LEMMA GossipSoundStep ==
  ASSUME Shape, AllSound, [Next]_vars
  PROVE  GossipSound'
<1>1. /\ channel \in Wires /\ listener \in [Nodes -> [Nodes -> Hearing]]
      /\ service \in [Nodes -> [solve : 0..MaxBlocks, verify : Seq(Sound)]]
  BY DEF AllSound, GossipSound, Wires
<1>2. CASE UNCHANGED <<listener, channel, service>>
  BY <1>1, <1>2 DEF GossipSound, Wires
<1>3. CASE ~UNCHANGED <<listener, channel, service>>
  <2>1. Next
    BY <1>3 DEF vars
  <2>2. PICK p \in Nodes :
            \/ Solve(p) \/ Announce(p) \/ Solved(p) \/ VerifyFails(p) \/ blockVerified(p)
            \/ FinishMined(p)
            \/ \E q \in Nodes : ListenerStep(p, q)
    BY <1>3, <2>1, GossipChanges
  <2>3. /\ service[p].solve \in 0..MaxBlocks /\ service[p].verify \in Seq(Sound)
        /\ \A q \in Nodes : listener[p][q] \in Hearing
        /\ listener[p] \in [Nodes -> Hearing]
        /\ ~Die(p)
    BY <1>1, <1>3 DEF Die
  <2>4. SUFFICES channel' \in Wires /\ listener' \in [Nodes -> [Nodes -> Hearing]]
                 /\ service' \in [Nodes -> [solve : 0..MaxBlocks, verify : Seq(Sound)]]
    BY DEF GossipSound, Wires
  <2>5. ASSUME NEW x \in 0..MaxBlocks
        PROVE  [service EXCEPT ![p].solve = x]
                  \in [Nodes -> [solve : 0..MaxBlocks, verify : Seq(Sound)]]
    BY <1>1
  <2>6. ASSUME NEW x \in Seq(Sound)
        PROVE  [service EXCEPT ![p].verify = x]
                  \in [Nodes -> [solve : 0..MaxBlocks, verify : Seq(Sound)]]
    BY <1>1
  <2>7. ASSUME NEW q \in Nodes, NEW x \in Hearing
        PROVE  [listener EXCEPT ![p][q] = x] \in [Nodes -> [Nodes -> Hearing]]
    BY <1>1
  <2>8. CASE Solve(p)
    <3>1. PICK x \in blockHash(Content(currentBlock[p])) :
             service' = [service EXCEPT ![p].solve = x]
      BY <2>8 DEF Solve
    <3>2. x \in Hashes
      BY DEF blockHash, Shape, MiningShape
    <3>3. x \in 0..MaxBlocks
      BY <3>2, ChainAssumption DEF Hashes
    <3>4. UNCHANGED <<channel, listener>>
      BY <2>8 DEF Solve, besideMiner
    <3> QED BY <1>1, <2>5, <3>1, <3>3, <3>4
  <2>9. CASE Announce(p)
    <3> DEFINE line == Line("TRANSACTION", Transactions[announced + 1])
    <3>1. /\ announced < Len(Transactions) /\ channel' = Multicast(channel, p, line)
          /\ UNCHANGED <<listener, service>>
      BY <2>9 DEF Announce
    <3>2. Transactions[announced + 1] \in Pool
      BY <3>1, PoolMoney DEF AllSound, PoolSound
    <3>3. line \in Lines
      BY <3>2 DEF Line, Lines
    <3> HIDE DEF line
    <3> QED BY <1>1, <3>1, <3>3, MulticastSound
  <2>10. CASE Solved(p)
    <3>1. service' = [service EXCEPT ![p].solve = 0] /\ UNCHANGED <<channel, listener>>
      BY <2>10 DEF Solved
    <3>2. 0 \in 0..MaxBlocks
      BY ChainAssumption
    <3> QED BY <1>1, <2>5, <3>1, <3>2
  <2>11. CASE VerifyFails(p) \/ blockVerified(p)
    <3>1. /\ service' = [service EXCEPT ![p].verify = Tail(service[p].verify)]
          /\ service[p].verify # <<>>
          /\ UNCHANGED <<channel, listener>>
      BY <2>3, <2>11 DEF VerifyFails, blockVerified, Answered, besideMiner
    <3>2. Tail(service[p].verify) \in Seq(Sound)
      BY <2>3, <3>1, HeadTailProperties
    <3> QED BY <1>1, <2>6, <3>1, <3>2
  <2>12. CASE FinishMined(p)
    <3> DEFINE b == Block(blocks[p], clerk[p].item.hash)
               line == Line("BLOCK_SOLVED", b)
    <3>1. /\ channel' = Multicast(channel, p, line) /\ clerk[p].at = "done"
          /\ UNCHANGED <<listener, service>>
      BY <2>12 DEF FinishMined, besideClerk
    <3>2. Known(blocks[p], clerk[p].item.hash)
      BY <3>1 DEF Shape, ChainShape
    <3>3. b \in blocks[p]
      BY <3>2, Finds
    <3>4. b \in Sound
      BY <3>3 DEF AllSound, ChainSound
    <3> HIDE DEF b
    <3>5. line \in Lines
      BY <3>4 DEF Line, Lines
    <3> HIDE DEF line
    <3> QED BY <1>1, <3>1, <3>5, MulticastSound
  <2>13. CASE \E q \in Nodes : ListenerStep(p, q)
    <3>0. PICK q \in Nodes : ListenerStep(p, q)
      BY <2>13
    <3> DEFINE x == Heard(p, q)
    <3>1. ASSUME NEW type, Hear(p, q, type)
          PROVE  /\ Rest(p, q) \in Wires
                 /\ type = "TRANSACTION" => x \in Pool
                 /\ type = "BLOCK_SOLVED" => x \in Sound
      <4>1. channel[q][p] # <<>> /\ Head(channel[q][p]).type = type
        BY <3>1 DEF Hear
      <4>2. Rest(p, q) \in Wires /\ Head(channel[q][p]) \in Lines
        BY <1>1, <4>1, RestSound
      <4> QED BY <4>1, <4>2 DEF Lines, Heard
    <3>2. CASE Drop(p, q)
      <4>1. /\ Hear(p, q, "TRANSACTION") \/ Hear(p, q, "BLOCK_SOLVED")
            /\ channel' = Rest(p, q) /\ UNCHANGED <<listener, service>>
        BY <3>2 DEF Drop
      <4> QED BY <1>1, <3>1, <4>1
    <3>3. CASE HearTransaction(p, q)
      <4> DEFINE line == Line("TRANSACTION", x)
                 next == At("enter", x)
      <4>1. /\ Hear(p, q, "TRANSACTION") /\ channel' = Multicast(Rest(p, q), p, line)
            /\ listener' = [listener EXCEPT ![p][q] = next]
            /\ UNCHANGED service
        BY <3>3 DEF HearTransaction
      <4>2. Rest(p, q) \in Wires /\ x \in Pool
        BY <3>1, <4>1
      <4>3. line \in Lines /\ next \in Hearing
        BY <4>2 DEF Line, Lines, At, Hearing
      <4> HIDE DEF line, next, x
      <4>4. channel' \in Wires
        BY <4>1, <4>2, <4>3, MulticastSound
      <4> QED BY <1>1, <2>7, <4>1, <4>3, <4>4
    <3>4. CASE Enter(p, q)
      <4>1. /\ listener' = [listener EXCEPT ![p][q] = Idle]
            /\ UNCHANGED <<channel, service>>
        BY <3>4 DEF Enter
      <4>2. Idle \in Hearing
        BY DEF Idle, At, Hearing
      <4> QED BY <1>1, <2>7, <4>1, <4>2
    <3>5. CASE HearBlock(p, q)
      <4> DEFINE next == At("relay", x)
      <4>1. /\ Hear(p, q, "BLOCK_SOLVED") /\ channel' = Rest(p, q)
            /\ listener' = [listener EXCEPT ![p][q] = next]
            /\ UNCHANGED service
        BY <3>5 DEF HearBlock
      <4>2. Rest(p, q) \in Wires /\ x \in Sound
        BY <3>1, <4>1
      <4>3. next \in Hearing
        BY <4>2 DEF At, Hearing
      <4> HIDE DEF next, x
      <4> QED BY <1>1, <2>7, <4>1, <4>2, <4>3
    <3>6. CASE RelayBlock(p, q)
      <4> DEFINE b == listener[p][q].item
                 line == Line("BLOCK_SOLVED", b)
      <4>1. /\ listener[p][q].at = "relay"
            /\ listener' = [listener EXCEPT ![p][q] = Idle]
            /\ channel' = Multicast(channel, p, line)
            /\ service' = [service EXCEPT ![p].verify = Append(service[p].verify, b)]
        BY <3>6 DEF RelayBlock
      <4>2. b \in Sound
        BY <2>3, <4>1 DEF Hearing
      <4>3. line \in Lines /\ Idle \in Hearing
        BY <4>2 DEF Line, Lines, Idle, At, Hearing
      <4> HIDE DEF b, line
      <4>4. Append(service[p].verify, b) \in Seq(Sound)
        BY <2>3, <4>2, AppendProperties
      <4>5. channel' \in Wires
        BY <1>1, <4>1, <4>3, MulticastSound
      <4> QED BY <1>1, <2>6, <2>7, <4>1, <4>3, <4>4, <4>5
    <3> QED BY <3>0, <3>2, <3>3, <3>4, <3>5, <3>6 DEF ListenerStep
  <2> QED BY <2>2, <2>8, <2>9, <2>10, <2>11, <2>12, <2>13
<1> QED BY <1>2, <1>3

LEMMA InitSound == Init => AllSound
<1> SUFFICES ASSUME Init PROVE AllSound
  OBVIOUS
<1>1. MaxBlocks \in Nat
  BY ChainAssumption
<1>2. PoolSound
  BY DEF Init, PoolSound
<1>3. MinerSound
  <2>1. Fresh(0, 0) \in Drafts
    BY <1>1, FreshDraft
  <2>2. currentBlock \in [Nodes -> Drafts] /\ solvingBlock \in [Nodes -> Sound \cup {NoBlock}]
    BY <2>1 DEF Init
  <2>3. \A p \in Nodes : Filled(miner[p], currentBlock[p], blocks[p])
    BY DEF Init, Filled
  <2> QED BY <2>2, <2>3 DEF MinerSound
<1>4. ChainSound
  <2>1. \A p \in Nodes : /\ blocks[p] = {} /\ unverifiedBlocks[p] = {}
                         /\ longestChainHash[p] = 0 /\ clerk[p] = Resting
    BY DEF Init
  <2>2. Resting.at = "idle" /\ Resting.item = NoBlock
    BY DEF Resting, Working
  <2>3. blocks \in [Nodes -> SUBSET Sound] /\ unverifiedBlocks \in [Nodes -> SUBSET Sound]
    BY DEF Init
  <2> QED BY <2>1, <2>2, <2>3 DEF ChainSound, OnePerHash, Founded
<1>5. GossipSound
  <2>1. <<>> \in Seq(Lines) /\ <<>> \in Seq(Sound) /\ 0 \in 0..MaxBlocks
    BY <1>1
  <2>2. Idle \in Hearing
    BY DEF Idle, At, Hearing
  <2> QED BY <2>1, <2>2 DEF Init, GossipSound
<1> QED BY <1>2, <1>3, <1>4, <1>5 DEF AllSound

------------------------------------------------------------------------------
(* The theorems                                                            *)

Inv == Shape /\ MiningInv /\ VerifyInv /\ ChainInv

\* Whatever the goroutines of the nodes do, and whatever nodes have ended, this holds.
THEOREM InvCorrect == Spec => []Inv
<1>1. Init => Inv
  BY InitShape, InitMiningInv, InitVerifyInv, InitChainInv DEF Inv
<1>2. Inv /\ [Next]_vars => Inv'
  BY ShapeStep, MiningInvStep, VerifyInvStep, ChainInvStep DEF Inv
<1> QED BY <1>1, <1>2, PTL DEF Spec

\* Only nodes run.
LEMMA AliveAreNodes == Spec => [](alive \subseteq Nodes)
<1>1. Init => alive \subseteq Nodes
  BY DEF Init
<1>2. alive \subseteq Nodes /\ [Next]_vars => (alive \subseteq Nodes)'
  <2> SUFFICES ASSUME alive \subseteq Nodes, [Next]_vars PROVE alive' \subseteq Nodes
    OBVIOUS
  <2>1. ASSUME NEW p \in Nodes, MinerStep(p)
        PROVE  alive' \subseteq alive
    BY <2>1 DEF MinerStep, Collect, ReadParent, ReadDepth, calculateAccountBalances, Solve,
                Publish, Renew, RenewNil, Die, besideMiner
  <2>2. ASSUME NEW p \in Nodes, ClerkStep(p)
        PROVE  alive' \subseteq alive
    BY <2>2 DEF ClerkStep, VerifyFails, blockVerified, Store, SetHash, KeepChain, SetDepth,
                SetParent, FinishMined, FinishVerified, Die, besideMiner, besideClerk
  <2>3. ASSUME NEW p \in Nodes, NEW q \in Nodes, ListenerStep(p, q)
        PROVE  alive' \subseteq alive
    BY <2>3 DEF ListenerStep, Drop, HearTransaction, Enter, HearBlock, RelayBlock, besideListener
  <2>4. ASSUME NEW p \in Nodes,
               Announce(p) \/ Solved(p) \/ SolvedUnexpectedly(p) \/ MapFault(p)
        PROVE  alive' \subseteq alive
    BY <2>4 DEF Announce, Solved, SolvedUnexpectedly, MapFault, Die
  <2>5. UNCHANGED vars => alive' = alive
    BY DEF vars
  <2> QED BY <2>1, <2>2, <2>3, <2>4, <2>5 DEF Next
<1> QED BY <1>1, <1>2, PTL DEF Spec

\* The service never answers for another block than the one a node is solving, so no
\* answer of its own ends the node: SetParent changes the block that is mined, but not
\* its hash.
THEOREM SolvedCorrect == Spec => []SolvedIsSolving
<1>1. Inv /\ alive \subseteq Nodes => SolvedIsSolving
  BY DEF Inv, MiningInv, Mines, SolvedIsSolving
<1> QED BY <1>1, InvCorrect, AliveAreNodes, PTL

\* Of a block the service is asked once, and when it has verified the block the node
\* finds it in unverifiedBlocks, however many copies come over however many links.
THEOREM VerifiedCorrect == Spec => []VerifiedIsUnverified
<1>1. Inv /\ alive \subseteq Nodes => VerifiedIsUnverified
  BY DEF Inv, VerifyInv, Verifies, VerifiedIsUnverified
<1> QED BY <1>1, InvCorrect, AliveAreNodes, PTL

\* A node whose clerk rests knows no block that beats its longest chain, although the
\* clerk sets its hash and its depth one after the other, and changes a block in blocks.
THEOREM LongestCorrect == Spec => []LongestChain
<1>1. Inv /\ alive \subseteq Nodes => LongestChain
  BY DEF Inv, ChainInv, Longest, Beaten, LongestChain, Resting, Working
<1> QED BY <1>1, InvCorrect, AliveAreNodes, PTL

\* Every block there is, in a chain, on its way or in the hands of a goroutine, is sound;
\* the parent of the block a miner fills is one the node has, whatever the clerk did to it
\* meanwhile (calculateAccountBalances would meet a nil pointer, blockchain.go:114).
THEOREM SoundCorrect == Spec => [](Shape /\ AllSound)
<1>1. Init => Shape /\ AllSound
  BY InitShape, InitSound
<1>2. Shape /\ AllSound /\ [Next]_vars => (Shape /\ AllSound)'
  <2> SUFFICES ASSUME Shape, AllSound, [Next]_vars PROVE Shape' /\ AllSound'
    OBVIOUS
  <2>1. Shape'
    BY ShapeStep
  <2>2. PoolSound' /\ MinerSound' /\ ChainSound' /\ GossipSound'
    BY PoolSoundStep, MinerSoundStep, ChainSoundStep, GossipSoundStep
  <2> QED BY <2>1, <2>2 DEF AllSound
<1> QED BY <1>1, <1>2, PTL DEF Spec

\* No account is overdrawn but the one money comes from, in whatever order a miner applies
\* the transactions of its block, and whoever's block was its parent (blockchain.go:122-130).
THEOREM NoOverdraftCorrect == Spec => []NoOverdraft
<1>1. AllSound => NoOverdraft
  BY SoundAre DEF AllSound, ChainSound, NoOverdraft
<1> QED BY <1>1, SoundCorrect, PTL

\* What the nodes have is of its type, for any number of nodes, blocks and transactions.
THEOREM TypeCorrect == Spec => []TypeOK
<1>1. Shape /\ AllSound /\ alive \subseteq Nodes => TypeOK
  <2> SUFFICES ASSUME Shape, AllSound, alive \subseteq Nodes PROVE TypeOK
    OBVIOUS
  <2>1. DOMAIN hashed \subseteq Hashes
    BY DEF Shape, MiningShape
  <2>2. ASSUME NEW p \in Nodes
        PROVE  /\ \A set \in {blocks[p], unverifiedBlocks[p]} :
                     /\ set \subseteq Blocks
                     /\ \A b, c \in set : b.hash = c.hash => b = c
               /\ solvingBlock[p] \in Blocks \cup {NoBlock}
               /\ longestChainHash[p] \in {0} \cup {b.hash : b \in blocks[p]}
               /\ longestChainDepth[p] \in Nat
               /\ clerk[p].at = "idle" <=> clerk[p].item = NoBlock
               /\ service[p].solve \in 0..MaxBlocks
               /\ transactionsBuff[p] \subseteq transactions[p]
    <3>1. /\ blocks[p] \subseteq Sound /\ unverifiedBlocks[p] \subseteq Sound
          /\ OnePerHash(blocks[p]) /\ OnePerHash(unverifiedBlocks[p])
          /\ Founded(blocks[p], longestChainHash[p])
          /\ clerk[p].at = "idle" => clerk[p].item = NoBlock
          /\ clerk[p].at # "idle" => clerk[p].item \in Sound
      BY DEF AllSound, ChainSound
    <3>2. Sound \subseteq Blocks /\ NoBlock \notin Sound
      BY SoundAre
    <3>3. blocks[p] \subseteq Blocks /\ unverifiedBlocks[p] \subseteq Blocks
      BY <3>1, <3>2
    <3>4. clerk[p].at = "idle" <=> clerk[p].item = NoBlock
      BY <3>1, <3>2
    <3>5. solvingBlock[p] \in Blocks \cup {NoBlock}
      BY <3>2 DEF AllSound, MinerSound
    <3>6. longestChainHash[p] \in {0} \cup {b.hash : b \in blocks[p]}
      BY <3>1 DEF Founded, Known
    <3>7. longestChainDepth[p] \in Nat
      BY DEF Shape, ChainShape
    <3>8. service[p].solve \in 0..MaxBlocks /\ transactionsBuff[p] \subseteq transactions[p]
      BY DEF AllSound, GossipSound, PoolSound
    <3>9. \A set \in {blocks[p], unverifiedBlocks[p]} :
             /\ set \subseteq Blocks
             /\ \A b, c \in set : b.hash = c.hash => b = c
      BY <3>1, <3>3 DEF OnePerHash
    <3> QED BY <3>4, <3>5, <3>6, <3>7, <3>8, <3>9
  <2> QED BY <2>1, <2>2 DEF TypeOK
<1> QED BY <1>1, SoundCorrect, AliveAreNodes, PTL
==============================================================================
