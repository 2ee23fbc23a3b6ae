-------------------------------- MODULE Queries --------------------------------
(***************************************************************************)
(* Query and QueryChunk (near-fetch/src/query.rs): one caller builds a     *)
(* query, awaits it and gets what a node answers.  The nodes behind the    *)
(* RPC address are external: each has a head of its own, lags behind, or   *)
(* moves to another fork; one request may reach one node, the next another. *)
(* A block is the path of forks that leads to it from the genesis block,   *)
(* which serves as its hash; its height is the length of the path.         *)
(***************************************************************************)
EXTENDS Naturals, SequencesExt, FiniteSetsExt

CONSTANTS
    Node,           \* nodes behind the RPC address
    Fork,           \* ways to extend a block
    MaxHeight,      \* bound: length of a chain
    Data, Empty,    \* arguments or prefixes, and the one of a new query
    Shard, Shard0,  \* shards, and ShardId::from(0)
    BadArgs, RpcError, InvalidData,   \* errors a query may end with
    Nothing         \* no request, no block, no answer yet

Errors == {BadArgs, RpcError, InvalidData}
Block == UNION {[1 .. height -> Fork] : height \in 0 .. MaxHeight}

VARIABLES
    head,       \* latest block of each node
    final,      \* the last final block
    kind,       \* what is queried
    ref,        \* block_ref or chunk_ref
    what,       \* arguments, prefix or shard
    at,         \* "new", or what the caller waits for
    request,    \* the request on its way, or the last one
    viewed,     \* what view_block() gave QueryChunk
    answer,     \* what the caller got
    asked,      \* history: the reference the caller named last
    named,      \* history: the arguments, prefix or shard named last
    spoilt,     \* history: the arguments serialised last were bad
    oldest      \* history: lowest head when the query was awaited

chainVars == <<head, final>>
built == <<kind, ref, what, asked, named, spoilt>>
flight == <<at, request, viewed, answer, oldest>>
vars == <<chainVars, built, flight>>

\* "view" stands for the code, the account, an access key and all of them.
RpcQuery == {"view_function", "view_state", "view"}
Kind == RpcQuery \union {"view_block", "gas_price", "view_chunk"}

\* BlockReference and ChunkReference; "unset" is None.
Ref(by, block, height) == [by |-> by, block |-> block, height |-> height]
Hash(block) == Ref("hash", block, Len(block))
Height(height) == Ref("height", <<>>, height)
Latest == Ref("latest", <<>>, 0)    \* Finality::None
Final == Ref("final", <<>>, 0)      \* Finality::Final
Unset == Ref("unset", <<>>, 0)
Refs == [by : {"hash", "height", "latest", "final", "chunk", "unset"},
         block : Block, height : 0 .. MaxHeight]

What == Data \union Shard \union {BadArgs, Nothing}
Request == [kind : Kind, ref : Refs, what : What]
Response == [kind : Kind, block : Block, what : What]

\* An error, or nothing, is neither an argument nor an answer.
ASSUME QueryAssumption ==
    /\ Node # {} /\ MaxHeight \in Nat /\ Empty \in Data /\ Shard0 \in Shard
    /\ Nothing \notin Errors
    /\ \A value \in Errors \union {Nothing} :
          value \notin Data \union Shard \union Block \union Request \union Response

TypeOK ==
    /\ head \in [Node -> Block] /\ final \in Block
    /\ kind \in Kind /\ ref \in Refs /\ asked \in Refs
    /\ what \in What /\ named \in What /\ spoilt \in BOOLEAN
    /\ at \in {"new", "block", "answer", "done"}
    /\ request \in Request \union {Nothing}
    /\ viewed \in Block \union {Nothing}
    /\ answer \in Response \union Errors \union {Nothing}
    /\ oldest \in 0 .. MaxHeight
    /\ request # Nothing => BadArgs # request.what /\ Unset # request.ref

-----------------------------------------------------------------------------
(* The nodes and the chain (external)                                      *)

OneChain(a, b) == IsPrefix(a, b) \/ IsPrefix(b, a)

\* A head only moves to a higher block, which may be on another fork.
NewHead(node, block) ==
    /\ Len(block) > Len(head[node]) /\ OneChain(block, final)
    /\ head' = [head EXCEPT ![node] = block]
    /\ UNCHANGED <<final, built, flight>>

Finalise(block) ==
    /\ Len(block) > Len(final) /\ IsPrefix(final, block)
    /\ \E node \in Node : IsPrefix(block, head[node])
    /\ final' = block
    /\ UNCHANGED <<head, built, flight>>

\* The blocks a node may answer from; blocks of lost forks are still found
\* by hash.
Served(node, reference) ==
    {block \in Block :
        \/ reference.by = "latest" /\ block = head[node]
        \/ reference.by = "final" /\ IsPrefix(block, final)
                                  /\ IsPrefix(block, head[node])
        \/ reference.by = "height" /\ Len(block) = reference.height
                                   /\ IsPrefix(block, head[node])
        \/ reference.by \in {"hash", "chunk"} /\ block = reference.block
                                   /\ Len(block) <= Len(head[node])}
-----------------------------------------------------------------------------
(* Building a query                                                        *)

\* view(), view_state(), view_code() and the others, view_chunk().
Init ==
    /\ head = [node \in Node |-> <<>>] /\ final = <<>>
    /\ kind \in Kind
    /\ ref = Unset /\ asked = Unset
    /\ what = IF kind \in {"view_function", "view_state"} THEN Empty ELSE Nothing
    /\ named = what /\ spoilt = FALSE
    /\ at = "new"
    /\ request = Nothing /\ viewed = Nothing /\ answer = Nothing /\ oldest = 0

\* Each method that names a block or a chunk replaces what was named before.
Refer(reference, shard) ==
    /\ at = "new"
    /\ ref' = reference /\ asked' = reference
    /\ what' = IF kind = "view_chunk" THEN shard ELSE what
    /\ named' = IF kind = "view_chunk" THEN shard ELSE named
    /\ UNCHANGED <<chainVars, kind, spoilt, flight>>

BlockHeight(height) == kind # "view_chunk" /\ Refer(Height(height), Nothing)
BlockHash(block) == kind # "view_chunk" /\ Refer(Hash(block), Nothing)

\* Only for RpcQueryRequest.
Finality(finality) == kind \in RpcQuery /\ Refer(finality, Nothing)

BlockHashAndShard(block, shard) ==
    kind = "view_chunk" /\ Refer(Hash(block), shard)
BlockHeightAndShard(height, shard) ==
    kind = "view_chunk" /\ Refer(Height(height), shard)
ChunkHash(block, shard) ==
    kind = "view_chunk" /\ Refer(Ref("chunk", block, Len(block)), shard)

\* The caller names data; the builder keeps them, or its error.
Put(data, kept) ==
    /\ at = "new" /\ what' = kept /\ named' = data
    /\ UNCHANGED <<chainVars, kind, ref, asked, flight>>

\* Mutant: raw bytes hide an earlier error.
ArgsReplace(bytes) ==
    kind = "view_function" /\ Put(bytes, bytes) /\ UNCHANGED spoilt

\* args() leaves an earlier error; args_json(), args_borsh() replace it.
Args(bytes) ==
    /\ kind = "view_function"
    /\ Put(bytes, IF what = BadArgs THEN what ELSE bytes) /\ UNCHANGED spoilt
ArgsSerialize(result) ==
    kind = "view_function" /\ Put(result, result) /\ spoilt' = (result = BadArgs)
Prefix(bytes) ==
    kind = "view_state" /\ Put(bytes, bytes) /\ UNCHANGED spoilt

-----------------------------------------------------------------------------
(* Awaiting it                                                             *)

Lowest == Min({Len(head[node]) : node \in Node})

Send(place, method, reference, data) ==
    /\ at' = place
    /\ request' = [kind |-> method, ref |-> reference, what |-> data]

\* Mutants: the default is the last final block; a finality is not passed on.
BlockReferenceFinal ==
    IF ref = Unset THEN Final ELSE ref
BlockReferenceNoFinality ==
    IF ref.by \in {"unset", "final"} THEN Latest ELSE ref

\* unwrap_or_else(BlockReference::latest); for a gas price, None means that.
BlockReference == IF ref = Unset THEN Latest ELSE ref

\* Mutant: the arguments are taken as they are.
AwaitUnchecked ==
    /\ at = "new" /\ (kind = "view_chunk" => ref # Unset)
    /\ oldest' = Lowest
    /\ Send("answer", kind, BlockReference, what)
    /\ UNCHANGED <<chainVars, built, viewed, answer>>

\* A kept argument error ends the query before anything is sent.
Await ==
    /\ at = "new" /\ (kind = "view_chunk" => ref # Unset)
    /\ oldest' = Lowest
    /\ IF what = BadArgs
         THEN /\ at' = "done" /\ answer' = BadArgs
              /\ UNCHANGED request
         ELSE /\ Send("answer", kind, BlockReference, what)
              /\ UNCHANGED answer
    /\ UNCHANGED <<chainVars, built, viewed>>

\* A chunk query without a reference first awaits view_block().
AwaitChunk ==
    /\ at = "new" /\ kind = "view_chunk" /\ ref = Unset
    /\ oldest' = Lowest
    /\ Send("block", "view_block", Latest, Nothing)
    /\ UNCHANGED <<chainVars, built, viewed, answer>>

\* Mutant: the chunk is asked for by height.
BlockViewedHeight(node) ==
    /\ at = "block"
    /\ \E block \in Served(node, request.ref) :
          /\ viewed' = block
          /\ Send("answer", "view_chunk", Height(Len(block)), Shard0)
    /\ UNCHANGED <<chainVars, built, answer, oldest>>

BlockViewed(node) ==
    /\ at = "block"
    /\ \E block \in Served(node, request.ref) :
          /\ viewed' = block
          /\ Send("answer", "view_chunk", Hash(block), Shard0)
    /\ UNCHANGED <<chainVars, built, answer, oldest>>

Finish(result) ==
    /\ at' = "done" /\ answer' = result
    /\ UNCHANGED <<chainVars, built, request, viewed, oldest>>

FromResponse(node) ==
    /\ at = "answer"
    /\ \E block \in Served(node, request.ref) :
          Finish([kind |-> request.kind, block |-> block, what |-> request.what])

\* from_response(): a QueryResponseKind that was not asked for.
OtherKind == at = "answer" /\ kind \in RpcQuery /\ Finish(InvalidData)

\* Also what a node says of a block it does not know.
RpcErr == at \in {"block", "answer"} /\ Finish(RpcError)

-----------------------------------------------------------------------------
Build ==
    \/ \E height \in 0 .. MaxHeight, shard \in Shard :
          BlockHeight(height) \/ BlockHeightAndShard(height, shard)
    \/ \E block \in Block, shard \in Shard :
          \/ BlockHash(block)
          \/ BlockHashAndShard(block, shard) \/ ChunkHash(block, shard)
    \/ \E finality \in {Latest, Final} : Finality(finality)
    \/ \E data \in Data :
          Args(data) \/ ArgsSerialize(data) \/ Prefix(data)
    \/ ArgsSerialize(BadArgs)

Chain ==
    \E block \in Block :
        \/ Finalise(block)
        \/ \E node \in Node : NewHead(node, block)

Finished == at = "done" /\ UNCHANGED vars

Next ==
    \/ Build \/ Await \/ AwaitChunk
    \/ \E node \in Node : BlockViewed(node) \/ FromResponse(node)
    \/ OtherKind \/ RpcErr
    \/ Chain \/ Finished

Spec == Init /\ [][Next]_vars

-----------------------------------------------------------------------------
Answered == answer \in Response

(* What a query returns is what its caller named, whichever node answered: *)
(* the kind of thing, the arguments, prefix or shard named last (shard 0   *)
(* for a chunk nobody named), the block or height named last.  Arguments   *)
(* that could not be serialised are never answered for, whatever the       *)
(* caller chained after them, unless later ones could.                     *)
AnsweredAsAsked ==
    Answered =>
        /\ ~spoilt
        /\ answer.kind = kind
        /\ answer.what = IF kind = "view_chunk" /\ asked = Unset
                           THEN Shard0 ELSE named
        /\ asked.by \in {"hash", "chunk"} => answer.block = asked.block
        /\ asked.by = "height" => Len(answer.block) = asked.height

(* A query without a reference, or with Finality::None, is answered from   *)
(* the latest block: one no older than what the slowest node had when the  *)
(* query was awaited, also for a chunk, which takes two requests.          *)
LatestIsFresh ==
    Answered /\ asked.by \in {"unset", "latest"} => Len(answer.block) >= oldest

(* What was read with Finality::Final is of the final chain, whatever the  *)
(* nodes' heads are by now and however the chain goes on.                  *)
FinalNeverUndone ==
    Answered /\ asked.by = "final" => IsPrefix(answer.block, final)

(* "The default reference point ... will be the latest block_hash with a   *)
(* shard_id of 0": the two requests of a chunk query are about one block,  *)
(* though the second node may have moved to another fork or lag behind.    *)
ChunkOfViewedBlock ==
    Answered /\ kind = "view_chunk" /\ asked = Unset =>
        viewed = answer.block /\ answer.what = Shard0
================================================================================
