------------------------------ MODULE Blockchain ------------------------------
(***************************************************************************)
(* The nodes of the cryptocurrency network (CryptoNodeNetwork), from the   *)
(* moment they are connected: the transactions and blocks they gossip, the *)
(* blocks they mine, and the longest chain of each.                        *)
(*                                                                         *)
(* Three kinds of goroutines of a node share its block chain, mostly       *)
(* without a lock: the miner (blockMiner), the one that listens to the     *)
(* service (here the clerk, listenToService), and one listener per inbound *)
(* connection (connectionListener).  The service is external: it sends     *)
(* transactions, solves puzzles and verifies solutions.                    *)
(*                                                                         *)
(* A hash is a number given to what is hashed; numbers are ordered as the  *)
(* hash strings are, so which hash is the smaller is anybody's guess.      *)
(***************************************************************************)
EXTENDS Integers, Sequences, FiniteSets, SequencesExt

CONSTANTS Nodes,
          Links,         \* <<p, q>>: p has a connection to write to q
          Transactions,  \* what the service sends, in this order
          Informed,      \* the nodes that the service sends transactions
          Accounts,      \* account 0 is where money comes from
          NoBlock,       \* the nil pointer to a block
          MaxBlocks,     \* bound: blocks hashed in all
          MaxBusy        \* bound: goroutines in the middle of something at once

ASSUME ChainAssumption ==
    /\ Links \subseteq Nodes \X Nodes /\ Informed \subseteq Nodes
    /\ 0 \in Accounts /\ Accounts \subseteq Nat
    /\ Transactions \in Seq([src : Accounts, dest : Accounts, amount : Nat])
    /\ MaxBlocks \in Nat /\ MaxBusy \in Nat

Hashes == 1..MaxBlocks
\* Nothing bounds the depth of a block: one of the same content may be mined deeper.
Blocks == [hash : Hashes, prev : 0..MaxBlocks, depth : Nat \ {0},
           transactions : SUBSET Range(Transactions), balances : [Accounts -> Int]]

ASSUME NilAssumption == NoBlock \notin Blocks

VARIABLES
    transactions,       \* the transactions each node has seen
    transactionsBuff,   \* those to go into its next block
    currentBlock,       \* the block it fills
    solvingBlock,       \* the block the service is to solve
    blocks,             \* the blocks of its block chain
    unverifiedBlocks,   \* those the service is to verify
    longestChainHash, longestChainDepth,
    miner,              \* where the miner is
    clerk,              \* where the clerk is, and with which block
    listener,           \* the same of the listener of p for q
    channel,            \* channel[p][q]: lines on their way from p to q
    service,            \* what the service has yet to answer each node
    announced,          \* how many transactions it has sent
    hashed,             \* what was hashed to each number used
    alive               \* the processes that run

chain == <<blocks, unverifiedBlocks>>
longest == <<longestChainHash, longestChainDepth>>
pool == <<transactions, transactionsBuff, announced>>
mining == <<currentBlock, solvingBlock, miner, hashed>>
vars == <<chain, longest, pool, mining, clerk, listener, channel, service, alive>>
\* What the steps of a goroutine leave alone.
besideMiner == <<chain, longest, transactions, announced, clerk, listener, channel, alive>>
besideClerk == <<pool, miner, hashed, listener, alive>>
besideListener == <<longest, announced, mining, clerk, alive>>

Fresh(prev, depth) ==
    [hash |-> 0, prev |-> prev, depth |-> depth, transactions |-> {},
     balances |-> [a \in Accounts |-> 0]]
\* A listener is at a place, with a block or a transaction; a clerk is at one,
\* with a block that was mined here or not.
At(place, item) == [at |-> place, item |-> item]
Idle == At("idle", NoBlock)
Working(place, block, mined) == [at |-> place, item |-> block, mined |-> mined]
Resting == Working("idle", NoBlock, FALSE)
Line(type, item) == [type |-> type, item |-> item]

Init ==
    /\ transactions = [p \in Nodes |-> {}]
    /\ transactionsBuff = [p \in Nodes |-> {}]
    /\ currentBlock = [p \in Nodes |-> Fresh(0, 0)]
    /\ solvingBlock = [p \in Nodes |-> NoBlock]
    /\ blocks = [p \in Nodes |-> {}]
    /\ unverifiedBlocks = [p \in Nodes |-> {}]
    /\ longestChainHash = [p \in Nodes |-> 0]
    /\ longestChainDepth = [p \in Nodes |-> 0]
    /\ miner = [p \in Nodes |-> "idle"]
    /\ clerk = [p \in Nodes |-> Resting]
    /\ listener = [p \in Nodes |-> [q \in Nodes |-> Idle]]
    /\ channel = [p \in Nodes |-> [q \in Nodes |-> <<>>]]
    /\ service = [p \in Nodes |-> [solve |-> 0, verify |-> <<>>]]
    /\ announced = 0
    /\ hashed = <<>>
    /\ alive = Nodes

------------------------------------------------------------------------------
Known(set, hash) == \E b \in set : b.hash = hash
Block(set, hash) == CHOOSE b \in set : b.hash = hash
Put(set, block) == {b \in set : b.hash # block.hash} \cup {block}

Content(b) == <<b.prev, b.transactions, b.balances>>
WellHashed(b) == b.hash \in DOMAIN hashed /\ hashed[b.hash] = Content(b)

\* One multicast is one step: it holds the lock of the connections.
Multicast(lines, p, line) ==
    [lines EXCEPT ![p] = [q \in Nodes |->
        IF <<p, q>> \in Links THEN Append(@[q], line) ELSE @[q]]]

\* A nil pointer or log.Fatal ends the process.
Die(p) ==
    /\ alive' = alive \ {p}
    /\ UNCHANGED <<chain, longest, pool, mining, clerk, listener, channel, service>>

\* A goroutine of a running node that is in the middle of something is busy;
\* only MaxBusy are at once.
Busy ==
    {<<p, "miner">> : p \in {n \in alive : miner[n] # "idle"}}
        \cup {<<p, "clerk">> : p \in {n \in alive : clerk[n] # Resting}}
        \cup {l \in alive \X Nodes : listener[l[1]][l[2]] # Idle}
MayBegin == Cardinality(Busy) < MaxBusy

------------------------------------------------------------------------------
(* blockMiner and moveCurrBlockToSolveBlock                                *)

MinerMove(p, from, to) ==
    /\ p \in alive
    /\ miner[p] = from
    /\ miner' = [miner EXCEPT ![p] = to]

Unhashed == {p \in Nodes : miner[p] \in {"parent", "depth", "balance", "hash"}}

\* Mutant: Collect does not wait for the block in solving.
CollectWhileSolving(p) ==
    /\ Cardinality(DOMAIN hashed) + Cardinality(Unhashed) < MaxBlocks
    /\ MayBegin
    /\ MinerMove(p, "idle", "parent")
    /\ currentBlock' = [currentBlock EXCEPT ![p].transactions =
                           @ \cup transactionsBuff[p]]
    /\ transactionsBuff' = [transactionsBuff EXCEPT ![p] = {}]
    /\ UNCHANGED <<besideMiner, solvingBlock, hashed, service>>

Collect(p) ==
    /\ Cardinality(DOMAIN hashed) + Cardinality(Unhashed) < MaxBlocks
    /\ MayBegin
    /\ MinerMove(p, "idle", "parent")
    /\ solvingBlock[p] = NoBlock
    /\ currentBlock' = [currentBlock EXCEPT ![p].transactions =
                           @ \cup transactionsBuff[p]]
    /\ transactionsBuff' = [transactionsBuff EXCEPT ![p] = {}]
    /\ UNCHANGED <<besideMiner, solvingBlock, hashed, service>>

ReadParent(p) ==
    /\ MinerMove(p, "parent", "depth")
    /\ currentBlock' = [currentBlock EXCEPT ![p].prev = longestChainHash[p]]
    /\ UNCHANGED <<besideMiner, transactionsBuff, solvingBlock, hashed, service>>

ReadDepth(p) ==
    /\ MinerMove(p, "depth", "balance")
    /\ currentBlock' = [currentBlock EXCEPT ![p].depth = longestChainDepth[p] + 1]
    /\ UNCHANGED <<besideMiner, transactionsBuff, solvingBlock, hashed, service>>

\* Mutant: Apply does not ask whether the account can pay.
ApplyUnchecked(balances, t) ==
    LET paid == [balances EXCEPT ![t.src] = @ - t.amount]
    IN  [paid EXCEPT ![t.dest] = @ + t.amount]

\* A transaction that its account cannot pay has no effect, but stays in the
\* block.
Apply(balances, t) ==
    LET paid == [balances EXCEPT ![t.src] = @ - t.amount]
    IN  IF t.src # 0 /\ balances[t.src] < t.amount
        THEN balances
        ELSE [paid EXCEPT ![t.dest] = @ + t.amount]

\* Of what the block's chain holds, its parent's transactions are left out;
\* the rest is applied in the order a Go map is traversed, which is any.
calculateAccountBalances(p) ==
    LET block == currentBlock[p]
        parent == IF block.prev = 0 THEN Fresh(0, 0)
                                    ELSE Block(blocks[p], block.prev)
        new == block.transactions \ parent.transactions
    IN  /\ MinerMove(p, "balance", "hash")
        /\ \E order \in SetToSeqs(new) :
              currentBlock' = [currentBlock EXCEPT
                  ![p].transactions = new,
                  ![p].balances = FoldLeft(Apply, parent.balances, order)]
        /\ UNCHANGED <<besideMiner, transactionsBuff, solvingBlock, hashed, service>>

\* The same content has the same hash at every node, another one another.
blockHash(content) ==
    LET known == {h \in DOMAIN hashed : hashed[h] = content}
    IN  IF known # {} THEN known ELSE Hashes \ DOMAIN hashed

\* The hash is computed, and SOLVE sent.
Solve(p) ==
    LET content == Content(currentBlock[p])
    IN  /\ MinerMove(p, "hash", "publish")
        /\ \E h \in blockHash(content) :
              /\ hashed' = [k \in DOMAIN hashed \cup {h} |->
                              IF k = h THEN content ELSE hashed[k]]
              /\ currentBlock' = [currentBlock EXCEPT ![p].hash = h]
              /\ service' = [service EXCEPT ![p].solve = h]
        /\ UNCHANGED <<besideMiner, transactionsBuff, solvingBlock>>

Publish(p) ==
    /\ MinerMove(p, "publish", "renew")
    /\ solvingBlock' = [solvingBlock EXCEPT ![p] = currentBlock[p]]
    /\ UNCHANGED <<besideMiner, transactionsBuff, currentBlock, hashed, service>>

\* Until here currentBlock and solvingBlock are one object.
Renew(p) ==
    /\ MinerMove(p, "renew", "idle")
    /\ solvingBlock[p] # NoBlock
    /\ currentBlock' = [currentBlock EXCEPT ![p] =
                          Fresh(solvingBlock[p].hash, solvingBlock[p].depth + 1)]
    /\ UNCHANGED <<besideMiner, transactionsBuff, solvingBlock, hashed, service>>

\* The clerk has been faster, and solvingBlock is nil again.
RenewNil(p) ==
    /\ p \in alive
    /\ miner[p] = "renew"
    /\ solvingBlock[p] = NoBlock
    /\ Die(p)

MinerStep(p) ==
    \/ Collect(p) \/ ReadParent(p) \/ ReadDepth(p)
    \/ calculateAccountBalances(p) \/ Solve(p) \/ Publish(p) \/ Renew(p) \/ RenewNil(p)

------------------------------------------------------------------------------
(* listenToService                                                         *)

Told(p) == p \in alive /\ clerk[p] = Resting

ClerkMove(p, from, to) ==
    /\ p \in alive
    /\ clerk[p].at = from
    /\ clerk' = [clerk EXCEPT ![p].at = to]

\* TRANSACTION from the service: gossiped, but not put in transactionsBuff.
Announce(p) ==
    /\ Told(p) /\ p \in Informed
    /\ announced < Len(Transactions)
    /\ announced' = announced + 1
    /\ transactions' = [transactions EXCEPT ![p] = @ \cup {Transactions[announced']}]
    /\ channel' = Multicast(channel, p, Line("TRANSACTION", Transactions[announced']))
    /\ UNCHANGED <<chain, longest, mining, transactionsBuff, clerk, listener, service, alive>>

\* SOLVED: there must be a block in solving, and it must be that one.
Expected(p) ==
    solvingBlock[p] # NoBlock /\ solvingBlock[p].hash = service[p].solve

Solved(p) ==
    /\ Told(p) /\ MayBegin
    /\ service[p].solve # 0
    /\ Expected(p)
    /\ service' = [service EXCEPT ![p].solve = 0]
    /\ clerk' = [clerk EXCEPT ![p] = Working("store", solvingBlock[p], TRUE)]
    /\ UNCHANGED <<chain, longest, pool, mining, listener, channel, alive>>

SolvedUnexpectedly(p) ==
    /\ Told(p)
    /\ service[p].solve # 0
    /\ ~Expected(p)
    /\ Die(p)

\* VERIFY, for the first block the service has yet to answer.
Answered(p) ==
    /\ Told(p)
    /\ service[p].verify # <<>>

\* The solution is not one of the hash computed from the block: VERIFY FAIL.
VerifyFails(p) ==
    /\ Answered(p)
    /\ ~WellHashed(Head(service[p].verify))
    /\ service' = [service EXCEPT ![p].verify = Tail(@)]
    /\ UNCHANGED <<besideMiner, mining, transactionsBuff>>

\* The block leaves unverifiedBlocks and is on its way to blocks; were it not
\* there, a nil pointer would end the process.
blockVerified(p) ==
    LET hash == Head(service[p].verify).hash
    IN  /\ Answered(p)
        /\ WellHashed(Head(service[p].verify))
        /\ MayBegin
        /\ IF Known(unverifiedBlocks[p], hash)
           THEN /\ service' = [service EXCEPT ![p].verify = Tail(@)]
                /\ clerk' = [clerk EXCEPT ![p] =
                      Working("store", Block(unverifiedBlocks[p], hash), FALSE)]
                /\ unverifiedBlocks' = [unverifiedBlocks EXCEPT ![p] =
                      {b \in @ : b.hash # hash}]
                /\ UNCHANGED <<longest, pool, mining, blocks, listener, channel, alive>>
           ELSE Die(p)

Store(p) ==
    /\ ClerkMove(p, "store", "compare")
    /\ blocks' = [blocks EXCEPT ![p] = Put(@, clerk[p].item)]
    /\ UNCHANGED <<longest, pool, mining, unverifiedBlocks, listener, channel, service, alive>>

\* setLongestChain: the deeper block, and of two as deep the smaller hash.
Deeper(p) == longestChainDepth[p] < clerk[p].item.depth
\* Mutant: Smaller keeps the chain it knew first.
SmallerNever(p) == FALSE

Smaller(p) ==
    /\ longestChainDepth[p] = clerk[p].item.depth
    /\ longestChainHash[p] > clerk[p].item.hash

SetHash(p) ==
    /\ \/ ClerkMove(p, "compare", "deepen") /\ Deeper(p)
       \/ ClerkMove(p, "compare", "parent") /\ Smaller(p)
    /\ longestChainHash' = [longestChainHash EXCEPT ![p] = clerk[p].item.hash]
    /\ UNCHANGED <<chain, pool, mining, longestChainDepth, listener, channel, service, alive>>

KeepChain(p) ==
    /\ ClerkMove(p, "compare", "done")
    /\ ~Deeper(p) /\ ~Smaller(p)
    /\ UNCHANGED <<chain, longest, pool, mining, listener, channel, service, alive>>

SetDepth(p) ==
    /\ ClerkMove(p, "deepen", "parent")
    /\ longestChainDepth' = [longestChainDepth EXCEPT ![p] = clerk[p].item.depth]
    /\ UNCHANGED <<chain, pool, mining, longestChainHash, listener, channel, service, alive>>

\* The parent of currentBlock is set, wherever the miner is with it.  While
\* that object is solvingBlock too, it changes there, and in blocks if it is
\* the block being stored.
SetParent(p) ==
    LET hash == clerk[p].item.hash
        shared == miner[p] = "renew" /\ solvingBlock[p] # NoBlock
        altered == [solvingBlock[p] EXCEPT !.prev = hash]
    IN  /\ ClerkMove(p, "parent", "done")
        /\ currentBlock' = [currentBlock EXCEPT ![p].prev = hash]
        /\ IF shared
           THEN /\ solvingBlock' = [solvingBlock EXCEPT ![p] = altered]
                /\ blocks' = [blocks EXCEPT ![p] =
                      IF solvingBlock[p] \in @ THEN Put(@, altered) ELSE @]
           ELSE UNCHANGED <<blocks, solvingBlock>>
        /\ UNCHANGED <<besideClerk, longest, unverifiedBlocks, channel, service>>

\* The block was mined here: it is no longer being solved, and it is sent.
FinishMined(p) ==
    /\ p \in alive
    /\ clerk[p].at = "done"
    /\ clerk[p].mined
    /\ clerk' = [clerk EXCEPT ![p] = Resting]
    /\ solvingBlock' = [solvingBlock EXCEPT ![p] = NoBlock]
    /\ channel' = Multicast(channel, p,
                     Line("BLOCK_SOLVED", Block(blocks[p], clerk[p].item.hash)))
    /\ UNCHANGED <<besideClerk, chain, longest, currentBlock, service>>

FinishVerified(p) ==
    /\ p \in alive
    /\ clerk[p].at = "done"
    /\ ~clerk[p].mined
    /\ clerk' = [clerk EXCEPT ![p] = Resting]
    /\ UNCHANGED <<chain, longest, pool, mining, listener, channel, service, alive>>

\* What the clerk does of itself or when the service has verified a block.
ClerkStep(p) ==
    \/ VerifyFails(p) \/ blockVerified(p)
    \/ Store(p) \/ SetHash(p) \/ KeepChain(p) \/ SetDepth(p) \/ SetParent(p)
    \/ FinishMined(p) \/ FinishVerified(p)

------------------------------------------------------------------------------
(* connectionListener of p for q                                           *)

Hear(p, q, type) ==
    /\ p \in alive
    /\ listener[p][q] = Idle
    /\ channel[q][p] # <<>>
    /\ Head(channel[q][p]).type = type

Heard(p, q) == Head(channel[q][p]).item
Rest(p, q) == [channel EXCEPT ![q][p] = Tail(@)]

KnownHere(p, hash) == Known(blocks[p], hash) \/ Known(unverifiedBlocks[p], hash)

Drop(p, q) ==
    /\ \/ Hear(p, q, "TRANSACTION") /\ Heard(p, q) \in transactions[p]
       \/ Hear(p, q, "BLOCK_SOLVED") /\ KnownHere(p, Heard(p, q).hash)
    /\ channel' = Rest(p, q)
    /\ UNCHANGED <<chain, longest, pool, mining, clerk, listener, service, alive>>

\* A transaction not seen before is passed on, and then entered.
HearTransaction(p, q) ==
    /\ MayBegin
    /\ Hear(p, q, "TRANSACTION")
    /\ Heard(p, q) \notin transactions[p]
    /\ channel' = Multicast(Rest(p, q), p, Line("TRANSACTION", Heard(p, q)))
    /\ listener' = [listener EXCEPT ![p][q] = At("enter", Heard(p, q))]
    /\ UNCHANGED <<chain, longest, pool, mining, clerk, service, alive>>

\* Mutant: Enter does not enter the transaction in transactions.
EnterBuffOnly(p, q) ==
    /\ p \in alive
    /\ listener[p][q].at = "enter"
    /\ listener' = [listener EXCEPT ![p][q] = Idle]
    /\ transactionsBuff' = [transactionsBuff EXCEPT ![p] = @ \cup {listener[p][q].item}]
    /\ UNCHANGED <<besideListener, chain, transactions, channel, service>>

Enter(p, q) ==
    LET t == listener[p][q].item
    IN  /\ p \in alive
        /\ listener[p][q].at = "enter"
        /\ listener' = [listener EXCEPT ![p][q] = Idle]
        /\ transactions' = [transactions EXCEPT ![p] = @ \cup {t}]
        /\ transactionsBuff' = [transactionsBuff EXCEPT ![p] = @ \cup {t}]
        /\ UNCHANGED <<besideListener, chain, channel, service>>

\* Mutant: HearBlock does not put the block in unverifiedBlocks.
HearBlockUnentered(p, q) ==
    /\ MayBegin
    /\ Hear(p, q, "BLOCK_SOLVED")
    /\ ~KnownHere(p, Heard(p, q).hash)
    /\ channel' = Rest(p, q)
    /\ listener' = [listener EXCEPT ![p][q] = At("relay", Heard(p, q))]
    /\ UNCHANGED <<chain, longest, pool, mining, clerk, service, alive>>

\* A block neither in blocks nor in unverifiedBlocks is put in the latter,
\* then passed on and sent to the service.
HearBlock(p, q) ==
    /\ MayBegin
    /\ Hear(p, q, "BLOCK_SOLVED")
    /\ ~KnownHere(p, Heard(p, q).hash)
    /\ channel' = Rest(p, q)
    /\ unverifiedBlocks' = [unverifiedBlocks EXCEPT ![p] = @ \cup {Heard(p, q)}]
    /\ listener' = [listener EXCEPT ![p][q] = At("relay", Heard(p, q))]
    /\ UNCHANGED <<longest, pool, mining, blocks, clerk, service, alive>>

\* Mutant: RelayBlock does not send the block to the service.
RelayUnverified(p, q) ==
    /\ p \in alive
    /\ listener[p][q].at = "relay"
    /\ listener' = [listener EXCEPT ![p][q] = Idle]
    /\ channel' = Multicast(channel, p, Line("BLOCK_SOLVED", listener[p][q].item))
    /\ UNCHANGED <<chain, longest, pool, mining, clerk, service, alive>>

RelayBlock(p, q) ==
    LET b == listener[p][q].item
    IN  /\ p \in alive
        /\ listener[p][q].at = "relay"
        /\ listener' = [listener EXCEPT ![p][q] = Idle]
        /\ channel' = Multicast(channel, p, Line("BLOCK_SOLVED", b))
        /\ service' = [service EXCEPT ![p].verify = Append(@, b)]
        /\ UNCHANGED <<chain, longest, pool, mining, clerk, alive>>

ListenerStep(p, q) ==
    \/ Drop(p, q) \/ HearTransaction(p, q) \/ Enter(p, q)
    \/ HearBlock(p, q) \/ RelayBlock(p, q)

------------------------------------------------------------------------------
\* The clerk writes the map blocks without a lock, while the miner or a
\* listener may be reading it: the runtime may end the process.
MapFault(p) ==
    /\ p \in alive
    /\ clerk[p].at = "store"
    /\ miner[p] = "balance" \/ \E q \in Nodes : Hear(p, q, "BLOCK_SOLVED")
    /\ Die(p)

Next ==
    \E p \in Nodes :
        \/ MinerStep(p) \/ Announce(p)
        \/ Solved(p) \/ SolvedUnexpectedly(p) \/ ClerkStep(p)
        \/ \E q \in Nodes : <<q, p>> \in Links /\ ListenerStep(p, q)
        \/ MapFault(p)

Spec == Init /\ [][Next]_vars

\* Goroutines that can go on do, and the service verifies what it is sent.  It
\* may never solve a puzzle or send a transaction.
FairSpec ==
    /\ Spec
    /\ \A p \in Nodes : WF_vars(MinerStep(p)) /\ WF_vars(ClerkStep(p))
    /\ \A link \in Links : WF_vars(ListenerStep(link[2], link[1]))

------------------------------------------------------------------------------
(* Properties                                                              *)

\* The block chain of a node holds what the code can put there: a block in
\* solving, known or to be verified has a hash and at most one block of a node
\* has it, and a goroutine at work has something to work on.
TypeOK ==
    /\ \A p \in Nodes :
          /\ \A set \in {blocks[p], unverifiedBlocks[p]} :
                /\ set \subseteq Blocks
                /\ \A b, c \in set : b.hash = c.hash => b = c
          /\ solvingBlock[p] \in Blocks \cup {NoBlock}
          /\ longestChainHash[p] \in {0} \cup {b.hash : b \in blocks[p]}
          /\ longestChainDepth[p] \in Nat
          /\ clerk[p].at = "idle" <=> clerk[p].item = NoBlock
          /\ service[p].solve \in 0..MaxBlocks
          /\ transactionsBuff[p] \subseteq transactions[p]
    /\ DOMAIN hashed \subseteq Hashes
    /\ alive \subseteq Nodes

\* The service solves the block in solving: its answer is never for another
\* block (solutionForSolving would end the program), whatever the clerk did
\* to currentBlock meanwhile.
SolvedIsSolving ==
    \A p \in alive :
        service[p].solve # 0 /\ solvingBlock[p] # NoBlock =>
            solvingBlock[p].hash = service[p].solve

\* A block the service verifies is in unverifiedBlocks when its answer comes,
\* once for each answer: blockVerified never meets a nil pointer, although a
\* copy of the block may come while it is in neither map.
VerifiedIsUnverified ==
    \A p \in alive :
        LET asked == service[p].verify
        IN  \A i \in DOMAIN asked :
                /\ Known(unverifiedBlocks[p], asked[i].hash)
                /\ \A j \in DOMAIN asked : asked[i].hash = asked[j].hash => i = j

\* Nakamoto consensus: no block a node knows is deeper than its longest chain,
\* or as deep with a smaller hash, in whatever order it has come to know them.
LongestChain ==
    \A p \in alive : clerk[p] = Resting =>
        \A b \in blocks[p] :
            \/ b.depth < longestChainDepth[p]
            \/ /\ b.depth = longestChainDepth[p]
               /\ longestChainHash[p] <= b.hash

\* No account but the one money comes from is ever overdrawn.
NoOverdraft ==
    \A p \in Nodes : \A b \in blocks[p] :
        \A a \in Accounts \ {0} : b.balances[a] >= 0

\* The longest chain rule compares depths: a block is one deeper than its parent.
\* Blocks changed after they were hashed are left out, no other node takes them.
DepthsFollow ==
    \A p \in alive : \A b, c \in {x \in blocks[p] : WellHashed(x)} :
        b.prev = c.hash => b.depth = c.depth + 1

\* The balances of a block are those of its parent after its transactions.
BalancesFollow ==
    \A p \in alive : \A b, c \in {x \in blocks[p] : WellHashed(x)} :
        b.prev = c.hash =>
            \E order \in SetToSeqs(b.transactions) :
                b.balances = FoldLeft(Apply, c.balances, order)

\* A transaction is in one block of a chain only, and so applied once.
AppliedOnce ==
    \A p \in alive : \A b, c, d \in {x \in blocks[p] : WellHashed(x)} :
        b.prev = c.hash /\ c.prev = d.hash =>
            b.transactions \cap (c.transactions \cup d.transactions) = {}

\* Gossip: a block in the chain of a running node that its clerk has done with,
\* and whose hash is that of its content, comes to be in the chain of each
\* running peer.
BlocksSpread ==
    \A link \in Links, h \in Hashes :
        LET from == link[1]
            to == link[2]
        IN  (clerk[from] = Resting /\ \E b \in blocks[from] : b.hash = h /\ WellHashed(b))
                ~> (Known(blocks[to], h) \/ ~({from, to} \subseteq alive))
==============================================================================
