----------------------------- MODULE QueriesProofs -----------------------------
(***************************************************************************)
(* What Queries promises, for any number of nodes, forks, arguments and    *)
(* shards and for chains of any length: the answer is the one asked for,   *)
(* although nodes lag, move to other forks and answer in turns.            *)
(***************************************************************************)
EXTENDS Queries, SequenceTheorems, WellFoundedInduction, TLAPS

(* A block, the path of forks that leads to it, is a sequence.             *)
LEMMA BlockIsSeq ==
    ASSUME NEW block \in Block
    PROVE  block \in Seq(Fork) /\ Len(block) \in 0 .. MaxHeight /\ Len(block) \in Nat
<1>1. PICK height \in 0 .. MaxHeight : block \in [1 .. height -> Fork]
  BY DEF Block
<1>2. height \in Nat
  BY <1>1, QueryAssumption
<1>3. block \in Seq(Fork)
  BY <1>1, <1>2, SeqDef
<1>4. Len(block) = height
  BY <1>1, <1>2, <1>3, LenProperties
<1> QED
  BY <1>1, <1>2, <1>3, <1>4

(* The genesis block.                                                      *)
LEMMA GenesisIsBlock == <<>> \in Block /\ Len(<<>>) = 0
<1>1. <<>> \in [1 .. 0 -> Fork]
  OBVIOUS
<1>2. 0 \in 0 .. MaxHeight
  BY QueryAssumption
<1> QED
  BY <1>1, <1>2 DEF Block

(* Position by position, a prefix agrees with the longer chain.            *)
LEMMA PrefixPoints ==
    ASSUME NEW a \in Block, NEW b \in Block
    PROVE  IsPrefix(a, b) <=>
             Len(a) <= Len(b) /\ \A i \in 1 .. Len(a) : a[i] = b[i]
<1>1. /\ a \in Seq(Fork) /\ Len(a) \in Nat
      /\ b \in Seq(Fork) /\ Len(b) \in Nat
  BY BlockIsSeq
<1>2. SubSeq(a, 1, Len(a)) = a
  BY <1>1, SubSeqFull
<1>3. ASSUME Len(a) <= Len(b)
      PROVE  /\ SubSeq(b, 1, Len(a)) \in Seq(Fork)
             /\ Len(SubSeq(b, 1, Len(a))) = Len(a)
             /\ \A i \in 1 .. Len(a) : SubSeq(b, 1, Len(a))[i] = b[i]
  <2>1. \A i \in 1 .. Len(a) : b[i] \in Fork
    BY <1>1, <1>3, ElementOfSeq
  <2> DEFINE n == Len(a)
  <2>2. n \in Int /\ n >= 0 /\ n \in Nat
    BY <1>1
  <2>3. \A i \in 1 .. n : b[i] \in Fork
    BY <2>1
  <2>4. /\ SubSeq(b, 1, n) \in Seq(Fork)
        /\ Len(SubSeq(b, 1, n)) = IF 1 <= n THEN n - 1 + 1 ELSE 0
        /\ \A i \in 1 .. n - 1 + 1 : SubSeq(b, 1, n)[i] = b[1 + i - 1]
    <3> HIDE DEF n
    <3> QED
      BY <2>2, <2>3, SubSeqProperties
  <2>5. \A i \in 1 .. n : SubSeq(b, 1, n)[i] = b[i]
    <3> HIDE DEF n
    <3>1. n - 1 + 1 = n
      BY <2>2
    <3>2. \A i \in 1 .. n : 1 + i - 1 = i
      BY <2>2
    <3> QED
      BY <2>4, <3>1, <3>2
  <2>6. Len(SubSeq(b, 1, n)) = n
    <3> HIDE DEF n
    <3> QED
      BY <2>2, <2>4
  <2> QED
    BY <2>4, <2>5, <2>6
<1>4. ASSUME IsPrefix(a, b)
      PROVE  Len(a) <= Len(b) /\ \A i \in 1 .. Len(a) : a[i] = b[i]
  BY <1>2, <1>3, <1>4 DEF IsPrefix
<1>5. ASSUME Len(a) <= Len(b), \A i \in 1 .. Len(a) : a[i] = b[i]
      PROVE  IsPrefix(a, b)
  <2> DEFINE c == SubSeq(b, 1, Len(a))
  <2>1. /\ c \in Seq(Fork) /\ Len(c) = Len(a)
        /\ \A i \in 1 .. Len(a) : c[i] = a[i]
    BY <1>3, <1>5
  <2> HIDE DEF c
  <2>2. a = c
    BY <1>1, <2>1, SeqEqual
  <2> QED
    BY <1>2, <1>5, <2>2 DEF IsPrefix, c
<1> QED
  BY <1>4, <1>5

(* A prefix of a prefix is one.                                            *)
LEMMA PrefixTransitive ==
    ASSUME NEW a \in Block, NEW b \in Block, NEW c \in Block,
           IsPrefix(a, b), IsPrefix(b, c)
    PROVE  IsPrefix(a, c)
<1>1. Len(a) \in Nat /\ Len(b) \in Nat /\ Len(c) \in Nat
  BY BlockIsSeq
<1>2. Len(a) <= Len(b) /\ \A i \in 1 .. Len(a) : a[i] = b[i]
  BY PrefixPoints
<1>3. Len(b) <= Len(c) /\ \A i \in 1 .. Len(b) : b[i] = c[i]
  BY PrefixPoints
<1>4. Len(a) <= Len(c)
  BY <1>1, <1>2, <1>3
<1>5. \A i \in 1 .. Len(a) : i \in 1 .. Len(b)
  BY <1>1, <1>2
<1>6. \A i \in 1 .. Len(a) : a[i] = c[i]
  BY <1>2, <1>3, <1>5
<1> QED
  BY <1>4, <1>6, PrefixPoints

(* The slowest node is no higher than any other.                           *)
LEMMA LowestHead ==
    ASSUME head \in [Node -> Block]
    PROVE  /\ Lowest \in 0 .. MaxHeight
           /\ \A node \in Node : Lowest <= Len(head[node])
<1> DEFINE S == {Len(head[node]) : node \in Node}
<1>1. \A node \in Node : Len(head[node]) \in 0 .. MaxHeight
  BY BlockIsSeq
<1>2. S \subseteq 0 .. MaxHeight
  BY <1>1
<1>3. S # {}
  <2>1. PICK node \in Node : TRUE
    BY QueryAssumption
  <2>2. Len(head[node]) \in S
    OBVIOUS
  <2> QED
    BY <2>2
<1>4. S \subseteq Nat
  BY <1>2, QueryAssumption
<1> HIDE DEF S
<1> DEFINE Below == {pair \in Nat \X Nat : pair[1] < pair[2]}
<1>0. IsWellFoundedOn(Below, Nat)
  BY NatLessThanWellFounded DEF OpToRel
<1> HIDE DEF Below
<1>5. PICK x \in S : \A y \in S : <<y, x>> \notin Below
  BY <1>0, <1>3, <1>4, WFMin
<1>6. \A y \in S : x <= y
  <2> SUFFICES ASSUME NEW y \in S PROVE x <= y
    OBVIOUS
  <2>1. x \in Nat /\ y \in Nat
    BY <1>4
  <2>2. ~(y < x)
    BY <1>5, <2>1 DEF Below
  <2> QED
    BY <2>1, <2>2
<1>7. Min(S) \in S /\ \A y \in S : Min(S) <= y
  BY <1>6 DEF Min
<1>8. Lowest = Min(S)
  BY DEF Lowest, S
<1>9. \A node \in Node : Len(head[node]) \in S
  BY DEF S
<1> QED
  BY <1>2, <1>7, <1>8, <1>9
-----------------------------------------------------------------------------
(* Type correctness                                                        *)

(* The references a builder or an awaited query can make are references.   *)
LEMMA RefsAre ==
    /\ Latest \in Refs /\ Final \in Refs /\ Unset \in Refs
    /\ Latest # Unset /\ Final # Unset
    /\ \A block \in Block : /\ Hash(block) \in Refs
                            /\ Ref("chunk", block, Len(block)) \in Refs
                            /\ Hash(block) # Unset
    /\ \A height \in 0 .. MaxHeight : Height(height) \in Refs
<1>1. <<>> \in Block /\ 0 \in 0 .. MaxHeight
  BY GenesisIsBlock, QueryAssumption
<1>2. \A block \in Block : Len(block) \in 0 .. MaxHeight
  BY BlockIsSeq
<1> QED
  BY <1>1, <1>2 DEF Latest, Final, Unset, Hash, Height, Ref, Refs

(* Nothing is no reference's request, and no error is an argument.         *)
LEMMA Distinct ==
    /\ BadArgs \notin Data \union Shard \union {Nothing}
    /\ Shard0 \in What /\ Nothing \in What /\ BadArgs \in What
    /\ \A data \in Data : data \in What
    /\ \A shard \in Shard : shard \in What /\ shard # BadArgs
    /\ Nothing \notin Request /\ Nothing \notin Block /\ Nothing \notin Response
    /\ \A error \in Errors : error \notin Response
<1>1. BadArgs \in Errors
  BY DEF Errors
<1> QED
  BY <1>1, QueryAssumption DEF What

(* Building a query changes the type of nothing.                           *)
LEMMA BuildType ==
    ASSUME TypeOK, Build
    PROVE  TypeOK'
<1> USE DEF TypeOK
<1>1. ASSUME NEW reference \in Refs, NEW data \in What, Refer(reference, data)
      PROVE  TypeOK'
  BY <1>1 DEF Refer, chainVars, flight
<1>2. ASSUME NEW data \in What, NEW kept \in What, Put(data, kept), spoilt' \in BOOLEAN
      PROVE  TypeOK'
  BY <1>2 DEF Put, chainVars, flight
<1>3. ASSUME NEW height \in 0 .. MaxHeight, NEW shard \in Shard,
             BlockHeight(height) \/ BlockHeightAndShard(height, shard)
      PROVE  TypeOK'
  BY <1>1, <1>3, RefsAre, Distinct DEF BlockHeight, BlockHeightAndShard
<1>4. ASSUME NEW block \in Block, NEW shard \in Shard,
             \/ BlockHash(block)
             \/ BlockHashAndShard(block, shard) \/ ChunkHash(block, shard)
      PROVE  TypeOK'
  BY <1>1, <1>4, RefsAre, Distinct DEF BlockHash, BlockHashAndShard, ChunkHash
<1>5. ASSUME NEW finality \in {Latest, Final}, Finality(finality)
      PROVE  TypeOK'
  <2>1. Refer(finality, Nothing)
    BY <1>5 DEF Finality
  <2>2. finality \in Refs /\ Nothing \in What
    BY RefsAre, Distinct
  <2> QED
    BY <1>1, <2>1, <2>2
<1>6. ASSUME NEW data \in Data \union {BadArgs},
             Args(data) \/ ArgsSerialize(data) \/ Prefix(data)
      PROVE  TypeOK'
  <2>1. PICK kept \in {data, what} : Put(data, kept)
    BY <1>6 DEF Args, ArgsSerialize, Prefix
  <2>2. data \in What /\ kept \in What
    BY <2>1, Distinct
  <2>3. spoilt' \in BOOLEAN
    BY <1>6 DEF Args, ArgsSerialize, Prefix
  <2> QED
    BY <1>2, <2>1, <2>2, <2>3
<1> QED
  <2> HIDE DEF TypeOK
  <2> QED
    BY <1>3, <1>4, <1>5, <1>6 DEF Build

(* What a request asks for can be asked for.                               *)
LEMMA SendType ==
    ASSUME NEW place, NEW method \in Kind, NEW reference \in Refs, NEW data \in What,
           reference # Unset, data # BadArgs, Send(place, method, reference, data)
    PROVE  /\ request' \in Request
           /\ request' # Nothing => BadArgs # request'.what /\ Unset # request'.ref
BY DEF Send, Request

(* A caller that waits for a node has a request on its way: TypeOK alone   *)
(* is not inductive, an answer is made of the request.                     *)
Underway == at \in {"block", "answer"} => request \in Request

(* Both hold in every state.                                               *)
LEMMA TypesHold == Spec => [](TypeOK /\ Underway)
<1>1. Init => TypeOK /\ Underway
  <2>1. <<>> \in Block /\ 0 \in 0 .. MaxHeight
    BY GenesisIsBlock, QueryAssumption
  <2>2. Empty \in What
    BY QueryAssumption DEF What
  <2> QED
    BY <2>1, <2>2, RefsAre, Distinct DEF Init, TypeOK, Underway, Kind, RpcQuery
<1>2. TypeOK /\ Underway /\ [Next]_vars => TypeOK' /\ Underway'
  <2> SUFFICES ASSUME TypeOK, Underway, [Next]_vars PROVE TypeOK' /\ Underway'
    OBVIOUS
  <2>1. CASE Build
    <3>1. UNCHANGED flight
      BY <2>1 DEF Build, BlockHeight, BlockHeightAndShard, BlockHash, BlockHashAndShard,
                  ChunkHash, Finality, Args, ArgsSerialize, Prefix, Refer, Put
    <3> QED
      BY <2>1, <3>1, BuildType DEF Underway, flight
  <2>2. CASE Await
    <3>1. oldest' \in 0 .. MaxHeight
      BY <2>2, LowestHead DEF Await, TypeOK
    <3>2. CASE what = BadArgs
      BY <2>2, <3>1, <3>2 DEF Await, TypeOK, Underway, Errors, chainVars, built
    <3>3. CASE what # BadArgs
      <4>1. BlockReference \in Refs /\ BlockReference # Unset
        BY RefsAre DEF BlockReference, TypeOK
      <4>2. Send("answer", kind, BlockReference, what) /\ UNCHANGED answer
        BY <2>2, <3>3 DEF Await
      <4>3. /\ request' \in Request
            /\ request' # Nothing => BadArgs # request'.what /\ Unset # request'.ref
        BY <3>3, <4>1, <4>2, SendType DEF TypeOK
      <4> QED
        BY <2>2, <3>1, <4>2, <4>3 DEF Await, Send, TypeOK, Underway, chainVars, built
    <3> QED
      BY <3>2, <3>3
  <2>3. CASE AwaitChunk
    <3>1. oldest' \in 0 .. MaxHeight
      BY <2>3, LowestHead DEF AwaitChunk, TypeOK
    <3>2. Send("block", "view_block", Latest, Nothing)
      BY <2>3 DEF AwaitChunk
    <3>3. "view_block" \in Kind
      BY DEF Kind
    <3>4. /\ request' \in Request
          /\ request' # Nothing => BadArgs # request'.what /\ Unset # request'.ref
      BY <3>2, <3>3, RefsAre, Distinct, SendType
    <3> QED
      BY <2>3, <3>1, <3>2, <3>4 DEF AwaitChunk, Send, TypeOK, Underway, chainVars, built
  <2>4. ASSUME NEW node \in Node, BlockViewed(node)
        PROVE  TypeOK' /\ Underway'
    <3>1. PICK block \in Block :
             viewed' = block /\ Send("answer", "view_chunk", Hash(block), Shard0)
      BY <2>4 DEF BlockViewed, Served
    <3>2. "view_chunk" \in Kind /\ Shard0 # BadArgs
      BY Distinct, QueryAssumption DEF Kind
    <3>3. /\ request' \in Request
          /\ request' # Nothing => BadArgs # request'.what /\ Unset # request'.ref
      BY <3>1, <3>2, RefsAre, Distinct, SendType
    <3> QED
      BY <2>4, <3>1, <3>3 DEF BlockViewed, Send, TypeOK, Underway, chainVars, built
  <2>5. ASSUME NEW result \in Response \union Errors, Finish(result)
        PROVE  TypeOK' /\ Underway'
    BY <2>5 DEF Finish, TypeOK, Underway, chainVars, built
  <2>6. CASE OtherKind \/ RpcErr
    BY <2>5, <2>6 DEF OtherKind, RpcErr, Errors
  <2>7. CASE Chain
    <3>1. ASSUME NEW block \in Block, Finalise(block)
          PROVE  TypeOK' /\ Underway'
      BY <3>1 DEF Finalise, TypeOK, Underway, built, flight
    <3>2. ASSUME NEW block \in Block, NEW node \in Node, NewHead(node, block)
          PROVE  TypeOK' /\ Underway'
      BY <3>2 DEF NewHead, TypeOK, Underway, built, flight
    <3> QED
      BY <2>7, <3>1, <3>2 DEF Chain
  <2>8. CASE UNCHANGED vars
    BY <2>8 DEF vars, chainVars, built, flight, TypeOK, Underway
  <2>9. ASSUME NEW node \in Node, FromResponse(node)
        PROVE  TypeOK' /\ Underway'
    <3>1. PICK block \in Block :
             Finish([kind |-> request.kind, block |-> block, what |-> request.what])
      BY <2>9 DEF FromResponse, Served
    <3>2. request \in Request
      BY <2>9 DEF FromResponse, Underway
    <3>3. [kind |-> request.kind, block |-> block, what |-> request.what] \in Response
      BY <3>2 DEF Request, Response
    <3> QED
      BY <2>5, <3>1, <3>3
  <2> QED
    BY <2>1, <2>2, <2>3, <2>4, <2>6, <2>7, <2>8, <2>9 DEF Next, Finished
<1> QED
  BY <1>1, <1>2, PTL DEF Spec

(* THEOREM: a query's variables keep their types; no request names bad     *)
(* arguments or leaves its reference open.                                 *)
THEOREM QueryTypeCorrect == Spec => []TypeOK
BY TypesHold, PTL
-----------------------------------------------------------------------------
(* The inductive invariant                                                 *)

\* While the caller waits, no head is lower than the lowest was.
NoneOlder == \A node \in Node : oldest <= Len(head[node])

\* What the request on its way asks for, by what was named and by what
\* view_block() gave.
AskedFor ==
    /\ request.kind = kind
    /\ ref # Unset => request.ref = ref
    /\ ref = Unset /\ kind # "view_chunk" => request.ref = Latest
    /\ ref # Unset \/ kind # "view_chunk" => request.what = what
    /\ ref = Unset /\ kind = "view_chunk" =>
          /\ viewed \in Block /\ oldest <= Len(viewed)
          /\ request.ref = Hash(viewed) /\ request.what = Shard0

\* The builder keeps what was named last, or an error that nothing replaced.
Kept ==
    /\ what = IF spoilt THEN BadArgs ELSE named
    /\ ~spoilt => named # BadArgs
    /\ spoilt => kind = "view_function"

Asking ==
    /\ Kept
    /\ asked = ref /\ (asked.by = "unset" => asked = Unset)
    /\ at # "done" => answer = Nothing
    /\ at = "block" =>
          /\ kind = "view_chunk" /\ ref = Unset /\ NoneOlder
          /\ request = [kind |-> "view_block", ref |-> Latest, what |-> Nothing]
    /\ at = "answer" => NoneOlder /\ AskedFor

Promises ==
    AnsweredAsAsked /\ LatestIsFresh /\ FinalNeverUndone /\ ChunkOfViewedBlock

QueryInv == TypeOK /\ Underway /\ Asking /\ Promises

(* Where no answer is new and the chain stays, no promise is touched.      *)
LEMMA NoAnswer ==
    ASSUME answer \notin Response
    PROVE  Promises
BY DEF Promises, Answered, AnsweredAsAsked, LatestIsFresh, FinalNeverUndone,
       ChunkOfViewedBlock

(* Whatever methods are chained, the builder keeps what was named last, or *)
(* the error.                                                              *)
LEMMA BuildKeeps ==
    ASSUME TypeOK, Kept, Build
    PROVE  Kept'
<1>1. ASSUME NEW reference, NEW data,
             Refer(reference, data), kind = "view_chunk" => data # BadArgs
      PROVE  Kept'
  BY <1>1 DEF Refer, Kept
<1>2. ASSUME NEW height \in 0 .. MaxHeight, NEW shard \in Shard,
             BlockHeight(height) \/ BlockHeightAndShard(height, shard)
      PROVE  Kept'
  BY <1>1, <1>2, Distinct DEF BlockHeight, BlockHeightAndShard
<1>3. ASSUME NEW block \in Block, NEW shard \in Shard,
             \/ BlockHash(block)
             \/ BlockHashAndShard(block, shard) \/ ChunkHash(block, shard)
      PROVE  Kept'
  BY <1>1, <1>3, Distinct DEF BlockHash, BlockHashAndShard, ChunkHash
<1>4. ASSUME NEW finality \in {Latest, Final}, Finality(finality)
      PROVE  Kept'
  <2>1. Refer(finality, Nothing) /\ kind # "view_chunk"
    BY <1>4 DEF Finality, RpcQuery
  <2> QED
    BY <1>1, <2>1
<1>5. ASSUME NEW data \in Data, Args(data) \/ ArgsSerialize(data) \/ Prefix(data)
      PROVE  Kept'
  <2>1. data # BadArgs
    BY Distinct
  <2>2. CASE Args(data)
    BY <2>1, <2>2 DEF Args, Put, Kept
  <2>3. CASE ArgsSerialize(data)
    BY <2>1, <2>3 DEF ArgsSerialize, Put, Kept
  <2>4. CASE Prefix(data)
    BY <2>1, <2>4 DEF Prefix, Put, Kept
  <2> QED
    BY <1>5, <2>2, <2>3, <2>4
<1>6. CASE ArgsSerialize(BadArgs)
  BY <1>6 DEF ArgsSerialize, Put, Kept
<1> QED
  BY <1>2, <1>3, <1>4, <1>5, <1>6 DEF Build

(* A query under construction keeps both names of what is asked for equal. *)
LEMMA BuildAsks ==
    ASSUME QueryInv, Build
    PROVE  Asking' /\ Promises'
<1>1. at = "new" /\ UNCHANGED flight
  BY DEF Build, BlockHeight, BlockHeightAndShard, BlockHash, BlockHashAndShard,
         ChunkHash, Finality, Args, ArgsSerialize, Prefix, Refer, Put
<1>2. answer = Nothing
  BY <1>1 DEF QueryInv, Asking
<1>3. answer' \notin Response
  BY <1>1, <1>2, Distinct DEF flight
<1>4. asked' = ref' /\ (asked'.by = "unset" => asked' = Unset)
  <2>1. ASSUME NEW reference, NEW data, Refer(reference, data), reference.by # "unset"
        PROVE  asked' = ref' /\ asked'.by # "unset"
    BY <2>1 DEF Refer
  <2>2. ASSUME NEW data, NEW kept, Put(data, kept)
        PROVE  asked' = ref' /\ (asked'.by = "unset" => asked' = Unset)
    BY <2>2 DEF Put, QueryInv, Asking
  <2>3. ASSUME NEW height \in 0 .. MaxHeight, NEW shard \in Shard,
               BlockHeight(height) \/ BlockHeightAndShard(height, shard)
        PROVE  asked' = ref' /\ asked'.by # "unset"
    BY <2>1, <2>3 DEF BlockHeight, BlockHeightAndShard, Height, Ref
  <2>4. ASSUME NEW block \in Block, NEW shard \in Shard,
               \/ BlockHash(block)
               \/ BlockHashAndShard(block, shard) \/ ChunkHash(block, shard)
        PROVE  asked' = ref' /\ asked'.by # "unset"
    BY <2>1, <2>4 DEF BlockHash, BlockHashAndShard, ChunkHash, Hash, Ref
  <2>5. ASSUME NEW finality \in {Latest, Final}, Finality(finality)
        PROVE  asked' = ref' /\ asked'.by # "unset"
    BY <2>1, <2>5 DEF Finality, Latest, Final, Ref
  <2>6. ASSUME NEW data, Args(data) \/ ArgsSerialize(data) \/ Prefix(data)
        PROVE  asked' = ref' /\ (asked'.by = "unset" => asked' = Unset)
    BY <2>2, <2>6 DEF Args, ArgsSerialize, Prefix
  <2> QED
    BY <2>3, <2>4, <2>5, <2>6 DEF Build
<1>5. Promises'
  BY <1>3 DEF Promises, Answered, AnsweredAsAsked, LatestIsFresh, FinalNeverUndone,
              ChunkOfViewedBlock
<1>6. Kept'
  BY BuildKeeps DEF QueryInv, Asking
<1> QED
  BY <1>1, <1>2, <1>4, <1>5, <1>6 DEF Asking, flight

(* An awaited query asks for what was named, or for the latest block.      *)
LEMMA AwaitAsks ==
    ASSUME QueryInv, Await \/ AwaitChunk
    PROVE  Asking' /\ Promises'
<1>1. at = "new" /\ answer = Nothing
  BY DEF Await, AwaitChunk, QueryInv, Asking
<1>2. UNCHANGED <<chainVars, built, viewed>> /\ oldest' = Lowest
  BY DEF Await, AwaitChunk
<1>3. UNCHANGED <<head, kind, ref, what, asked, named, spoilt>>
  BY <1>2 DEF chainVars, built
<1>4. NoneOlder'
  <2>1. \A node \in Node : Lowest <= Len(head[node])
    BY LowestHead DEF QueryInv, TypeOK
  <2> QED
    BY <1>2, <1>3, <2>1 DEF NoneOlder
<1>5. answer' \in {Nothing, BadArgs}
  BY <1>1 DEF Await, AwaitChunk
<1>6. Promises'
  <2>1. answer' \notin Response
    BY <1>5, Distinct DEF Errors
  <2> QED
    BY <2>1 DEF Promises, Answered, AnsweredAsAsked, LatestIsFresh, FinalNeverUndone,
                ChunkOfViewedBlock
<1>7. asked' = ref' /\ (asked'.by = "unset" => asked' = Unset) /\ Kept'
  BY <1>3 DEF QueryInv, Asking, Kept
<1>8. CASE Await
  <2>1. CASE what = BadArgs
    <3>1. at' = "done"
      BY <1>8, <2>1 DEF Await
    <3> QED
      BY <1>6, <1>7, <3>1 DEF Asking
  <2>2. CASE what # BadArgs
    <3>1. /\ at' = "answer" /\ answer' = Nothing
          /\ request' = [kind |-> kind, ref |-> BlockReference, what |-> what]
          /\ kind = "view_chunk" => ref # Unset
      BY <1>1, <1>8, <2>2 DEF Await, Send
    <3>2. AskedFor'
      BY <1>3, <3>1 DEF AskedFor, BlockReference
    <3> QED
      BY <1>4, <1>6, <1>7, <3>1, <3>2 DEF Asking
  <2> QED
    BY <2>1, <2>2
<1>9. CASE AwaitChunk
  <2>1. /\ at' = "block" /\ answer' = Nothing
        /\ request' = [kind |-> "view_block", ref |-> Latest, what |-> Nothing]
        /\ kind' = "view_chunk" /\ ref' = Unset
    BY <1>1, <1>3, <1>9 DEF AwaitChunk, Send
  <2> QED
    BY <1>4, <1>6, <1>7, <2>1 DEF Asking
<1> QED
  BY <1>8, <1>9

(* The block of view_block() is one node's head; the chunk is asked for by *)
(* its hash.                                                               *)
LEMMA BlockViewedAsks ==
    ASSUME QueryInv, NEW node \in Node, BlockViewed(node)
    PROVE  Asking' /\ Promises'
<1>1. /\ at = "block" /\ answer = Nothing /\ kind = "view_chunk" /\ ref = Unset
      /\ request.ref = Latest /\ NoneOlder
  BY DEF BlockViewed, QueryInv, Asking
<1>2. PICK block \in Served(node, request.ref) :
         viewed' = block /\ Send("answer", "view_chunk", Hash(block), Shard0)
  BY DEF BlockViewed
<1>3. block \in Block /\ block = head[node]
  BY <1>1, <1>2 DEF Served, Latest, Ref
<1>4. UNCHANGED <<chainVars, built, answer, oldest>>
  BY DEF BlockViewed
<1>5. AskedFor'
  BY <1>1, <1>2, <1>3, <1>4 DEF AskedFor, NoneOlder, Send, built
<1>6. NoneOlder'
  BY <1>1, <1>4 DEF NoneOlder, chainVars
<1>7. answer' \notin Response
  BY <1>1, <1>4, Distinct
<1>8. Promises'
  BY <1>7 DEF Promises, Answered, AnsweredAsAsked, LatestIsFresh, FinalNeverUndone,
              ChunkOfViewedBlock
<1>9. at' = "answer" /\ answer' = Nothing
  BY <1>1, <1>2, <1>4 DEF Send
<1> QED
  BY <1>4, <1>5, <1>6, <1>8, <1>9 DEF QueryInv, Asking, Kept, built

(* What a node answers is what the caller asked for.                       *)
LEMMA AnswerKeepsPromises ==
    ASSUME QueryInv, NEW node \in Node, FromResponse(node)
    PROVE  Asking' /\ Promises'
<1>1. at = "answer" /\ NoneOlder /\ AskedFor
  BY DEF FromResponse, QueryInv, Asking
<1>2. PICK block \in Served(node, request.ref) :
         Finish([kind |-> request.kind, block |-> block, what |-> request.what])
  BY DEF FromResponse
<1>3. block \in Block
  BY <1>2 DEF Served
<1>4. /\ answer'.kind = request.kind /\ answer'.block = block
      /\ answer'.what = request.what /\ at' = "done"
      /\ UNCHANGED <<head, final, kind, ref, what, asked, named, spoilt, request,
                      viewed, oldest>>
  BY <1>2 DEF Finish, chainVars, built
<1>5. asked = ref /\ (asked.by = "unset" => asked = Unset) /\ Unset.by = "unset"
  BY DEF QueryInv, Asking, Unset, Ref
<1>6. AnsweredAsAsked'
  <2>1. ~spoilt /\ request.what = IF kind = "view_chunk" /\ asked = Unset
                                    THEN Shard0 ELSE named
    <3>1. Kept /\ request \in Request /\ BadArgs # request.what
      BY <1>1, Distinct DEF QueryInv, Asking, Underway, TypeOK, FromResponse
    <3>2. CASE kind = "view_chunk" /\ ref = Unset
      BY <1>1, <1>5, <3>1, <3>2 DEF AskedFor, Kept
    <3>3. CASE ~(kind = "view_chunk" /\ ref = Unset)
      <4>1. request.what = what
        BY <1>1, <3>3 DEF AskedFor
      <4> QED
        BY <1>5, <3>1, <3>3, <4>1 DEF Kept
    <3> QED
      BY <3>2, <3>3
  <2>2. ASSUME asked.by \in {"hash", "chunk"} PROVE block = asked.block
    <3>1. request.ref = asked
      BY <1>1, <1>5, <2>2 DEF AskedFor
    <3> QED
      BY <1>2, <2>2, <3>1 DEF Served
  <2>3. ASSUME asked.by = "height" PROVE Len(block) = asked.height
    <3>1. request.ref = asked
      BY <1>1, <1>5, <2>3 DEF AskedFor
    <3> QED
      BY <1>2, <2>3, <3>1 DEF Served
  <2> QED
    BY <1>1, <1>4, <2>1, <2>2, <2>3 DEF AnsweredAsAsked, AskedFor
<1>7. LatestIsFresh'
  <2>1. CASE ref = Unset /\ kind = "view_chunk"
    <3>1. request.ref = Hash(viewed) /\ oldest <= Len(viewed)
      BY <1>1, <2>1 DEF AskedFor
    <3>2. block = viewed
      BY <1>2, <3>1 DEF Served, Hash, Ref
    <3>3. Len(block) \in Nat /\ oldest \in Nat
      BY <1>3, BlockIsSeq, QueryAssumption DEF QueryInv, TypeOK
    <3>4. Len(block) >= oldest
      BY <3>1, <3>2, <3>3
    <3> QED
      BY <1>4, <3>4 DEF LatestIsFresh
  <2>2. CASE ~(ref = Unset /\ kind = "view_chunk")
    <3> SUFFICES ASSUME asked.by \in {"unset", "latest"} PROVE Len(block) >= oldest
      BY <1>4 DEF LatestIsFresh
    <3>1. request.ref.by = "latest"
      BY <1>1, <1>5, <2>2 DEF AskedFor, Latest, Ref
    <3>2. block = head[node]
      BY <1>2, <3>1 DEF Served
    <3>3. oldest <= Len(block) /\ Len(block) \in Nat /\ oldest \in Nat
      BY <1>1, <1>3, <3>2, BlockIsSeq, QueryAssumption DEF NoneOlder, QueryInv, TypeOK
    <3> QED
      BY <3>3
  <2> QED
    BY <2>1, <2>2
<1>8. FinalNeverUndone'
  <2> SUFFICES ASSUME asked.by = "final" PROVE IsPrefix(block, final)
    BY <1>4 DEF FinalNeverUndone
  <2>1. request.ref = asked
    BY <1>1, <1>5 DEF AskedFor
  <2> QED
    BY <1>2, <2>1 DEF Served
<1>9. ChunkOfViewedBlock'
  <2> SUFFICES ASSUME kind = "view_chunk", asked = Unset
               PROVE  viewed = block /\ request.what = Shard0
    BY <1>4 DEF ChunkOfViewedBlock
  <2>1. request.ref = Hash(viewed) /\ request.what = Shard0
    BY <1>1, <1>5 DEF AskedFor
  <2> QED
    BY <1>2, <2>1 DEF Served, Hash, Ref
<1>10. Asking'
  BY <1>4, <1>5 DEF QueryInv, Asking, Kept
<1> QED
  BY <1>6, <1>7, <1>8, <1>9, <1>10 DEF Promises

(* The chain moves on: heads get higher, and what was final stays so.      *)
LEMMA ChainKeepsPromises ==
    ASSUME QueryInv, Chain
    PROVE  Asking' /\ Promises'
<1>1. ASSUME NEW block \in Block, NEW node \in Node, NewHead(node, block)
      PROVE  Asking' /\ Promises'
  <2>1. head \in [Node -> Block] /\ oldest \in Nat
    BY QueryAssumption DEF QueryInv, TypeOK
  <2>2. ASSUME NoneOlder, NEW other \in Node
        PROVE  oldest <= Len(head'[other])
    <3>1. /\ oldest <= Len(head[other]) /\ oldest <= Len(head[node])
          /\ Len(head[node]) \in Nat /\ Len(block) \in Nat
      BY <2>1, <2>2, BlockIsSeq DEF NoneOlder
    <3>2. Len(block) > Len(head[node])
      BY <1>1 DEF NewHead
    <3>3. oldest <= Len(block)
      BY <2>1, <3>1, <3>2
    <3>4. head'[other] = IF other = node THEN block ELSE head[other]
      BY <1>1, <2>1 DEF NewHead
    <3> QED
      BY <3>1, <3>3, <3>4
  <2>3. UNCHANGED <<final, built, flight>>
    BY <1>1 DEF NewHead
  <2>4. NoneOlder => NoneOlder'
    BY <2>2, <2>3 DEF NoneOlder, flight
  <2>5. Asking'
    BY <2>3, <2>4 DEF QueryInv, Asking, Kept, AskedFor, built, flight
  <2>6. Promises'
    BY <2>3 DEF QueryInv, Promises, Answered, AnsweredAsAsked, LatestIsFresh,
                FinalNeverUndone, ChunkOfViewedBlock, built, flight
  <2> QED
    BY <2>5, <2>6
<1>2. ASSUME NEW block \in Block, Finalise(block)
      PROVE  Asking' /\ Promises'
  <2>1. UNCHANGED <<head, built, flight>>
    BY <1>2 DEF Finalise
  <2>2. Asking'
    BY <2>1 DEF QueryInv, Asking, Kept, AskedFor, NoneOlder, built, flight
  <2>3. AnsweredAsAsked' /\ LatestIsFresh' /\ ChunkOfViewedBlock'
    BY <2>1 DEF QueryInv, Promises, Answered, AnsweredAsAsked, LatestIsFresh,
                ChunkOfViewedBlock, built, flight
  <2>4. FinalNeverUndone'
    <3> SUFFICES ASSUME answer \in Response, asked.by = "final"
                 PROVE  IsPrefix(answer.block, block)
      BY <1>2, <2>1 DEF FinalNeverUndone, Answered, Finalise, built, flight
    <3>1. IsPrefix(answer.block, final)
      BY DEF QueryInv, Promises, FinalNeverUndone, Answered
    <3>2. answer.block \in Block /\ final \in Block
      BY DEF Response, QueryInv, TypeOK
    <3>3. IsPrefix(final, block)
      BY <1>2 DEF Finalise
    <3> QED
      BY <3>1, <3>2, <3>3, PrefixTransitive
  <2> QED
    BY <2>2, <2>3, <2>4 DEF Promises
<1> QED
  BY <1>1, <1>2 DEF Chain

(* All of it holds in every state.                                         *)
LEMMA QueryInvHolds == Spec => []QueryInv
<1>1. Init => Asking /\ Promises
  <2> SUFFICES ASSUME Init PROVE Asking /\ Promises
    OBVIOUS
  <2>1. answer \notin Response
    BY Distinct DEF Init
  <2>2. Kept
    BY Distinct, QueryAssumption DEF Init, Kept
  <2> QED
    BY <2>1, <2>2, NoAnswer DEF Init, Asking, Unset, Ref
<1>2. TypeOK /\ Underway /\ Asking /\ Promises /\ [Next]_vars => Asking' /\ Promises'
  <2> SUFFICES ASSUME QueryInv, [Next]_vars PROVE Asking' /\ Promises'
    BY DEF QueryInv
  <2>1. CASE OtherKind \/ RpcErr
    <3>1. PICK result \in Errors : Finish(result)
      BY <2>1 DEF OtherKind, RpcErr, Errors
    <3>2. answer' \notin Response /\ at' = "done"
          /\ UNCHANGED <<asked, ref, kind, what, named, spoilt>>
      BY <3>1, Distinct DEF Finish, built
    <3>3. Promises'
      BY <3>2 DEF Promises, Answered, AnsweredAsAsked, LatestIsFresh, FinalNeverUndone,
                  ChunkOfViewedBlock
    <3> QED
      BY <3>2, <3>3 DEF QueryInv, Asking, Kept
  <2>2. CASE UNCHANGED vars
    <3>1. UNCHANGED <<head, final, kind, ref, what, asked, named, spoilt, at, request,
                      viewed, answer, oldest>>
      BY <2>2 DEF vars, chainVars, built, flight
    <3> QED
      BY <3>1 DEF QueryInv, Asking, Kept, AskedFor, NoneOlder, Promises, Answered,
                  AnsweredAsAsked, LatestIsFresh, FinalNeverUndone, ChunkOfViewedBlock
  <2> QED
    BY <2>1, <2>2, BuildAsks, AwaitAsks, BlockViewedAsks, AnswerKeepsPromises,
       ChainKeepsPromises DEF Next, Finished
<1> QED
  BY <1>1, <1>2, TypesHold, PTL DEF Spec, QueryInv

(* THEOREM: a query's answer is of the kind and about the block, height    *)
(* and data that the caller named last, or shard 0 by default, whichever   *)
(* node gave it and whatever the chain did in the meantime; and there is   *)
(* none if the arguments serialised last were bad, whatever was chained.   *)
THEOREM AnswersAreAsAsked == Spec => []AnsweredAsAsked
BY QueryInvHolds, PTL DEF QueryInv, Promises

(* THEOREM: without a reference, or with Finality::None, the answer is no  *)
(* older than the lowest head when the query was awaited, also where two   *)
(* nodes are asked one after the other.                                    *)
THEOREM AnswersAreFresh == Spec => []LatestIsFresh
BY QueryInvHolds, PTL DEF QueryInv, Promises

(* THEOREM: what was read with Finality::Final stays on the final chain.   *)
THEOREM FinalAnswersStay == Spec => []FinalNeverUndone
BY QueryInvHolds, PTL DEF QueryInv, Promises

(* THEOREM: the two requests of a chunk query are about one block.         *)
THEOREM ChunkOfOneBlock == Spec => []ChunkOfViewedBlock
BY QueryInvHolds, PTL DEF QueryInv, Promises
================================================================================
