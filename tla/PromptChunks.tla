---------------------------- MODULE PromptChunks ----------------------------
(***************************************************************************)
(* Data for the language model (utils/chunk_manager.py): it is cut into    *)
(* chunks of at most half a chunk's tokens, each chunk is sent with up to  *)
(* three attempts, and what comes back is combined.  An item stands for    *)
(* its number of tokens.  The routers send one prompt, which is one chunk, *)
(* by call_llm_api.                                                        *)
(***************************************************************************)
EXTENDS Integers, SequencesExt, Collections

CONSTANTS
    Sizes,          \* the numbers of tokens an item may have
    MaxItems,       \* bound on the number of items
    MaxTokens,      \* max_tokens_per_chunk
    Retries         \* how often a chunk is sent

ASSUME SizesAssumption == Sizes \subseteq Nat /\ MaxItems \in Nat /\ MaxTokens \in Nat
ASSUME RetryAssumption == Retries \in Nat \ {0}

VARIABLES
    data,     \* the items
    at,       \* the chunk that is being processed
    tries,    \* per chunk, how its attempts went
    results   \* the chunks of whose results the final one is made

chunkVars == <<data, at, tries, results>>

Outcomes == {"result", "empty", "error", "quota"}

-----------------------------------------------------------------------------
(* chunk_data *)

Effective == MaxTokens \div 2

Start == [chunks |-> <<>>, current |-> <<>>, tokens |-> 0]

\* Mutant: the count is not reset with the chunk.
Put_KeepsCount(acc, item) ==
    IF acc.tokens + item > Effective /\ acc.current # <<>>
    THEN [chunks |-> Append(acc.chunks, acc.current), current |-> <<item>>, tokens |-> acc.tokens + item]
    ELSE [acc EXCEPT !.current = Append(@, item), !.tokens = @ + item]

\* A chunk that the item does not fit into is closed; an item that is too large for
\* any is a chunk of its own.
Put(acc, item) ==
    LET full == acc.tokens + item > Effective /\ acc.current # <<>>
        open == IF full THEN [Start EXCEPT !.chunks = Append(acc.chunks, acc.current)] ELSE acc
    IN  IF item > Effective
        THEN [Start EXCEPT !.chunks =
                Append(IF open.current = <<>> THEN open.chunks ELSE Append(open.chunks, open.current), <<item>>)]
        ELSE [chunks |-> open.chunks, current |-> Append(open.current, item), tokens |-> open.tokens + item]

ChunkData(items) ==
    LET end == FoldLeft(Put, Start, items)
    IN  IF end.current = <<>> THEN end.chunks ELSE Append(end.chunks, end.current)

Chunks == ChunkData(data)

-----------------------------------------------------------------------------
(* process_in_chunks over _call_gemini_api *)

ChunksTypeOK ==
    /\ data \in SeqOf(Sizes, MaxItems)
    /\ at \in 1..(Len(Chunks) + 1)
    /\ tries \in [1..Len(Chunks) -> SeqOf(Outcomes, Retries)]
    /\ \A i \in DOMAIN results : results[i] \in 1..(at - 1)

ChunksInit ==
    /\ data \in SeqOf(Sizes, MaxItems)
    /\ at = 1
    /\ tries = [i \in 1..Len(ChunkData(data)) |-> <<>>]
    /\ results = <<>>

Try(outcome) ==
    /\ at <= Len(Chunks)
    /\ tries' = [tries EXCEPT ![at] = Append(@, outcome)]

\* The model answers with an object; an empty one is no result.
AnswerChunk(outcome) ==
    /\ Try(outcome)
    /\ results' = IF outcome = "result" THEN Append(results, at) ELSE results
    /\ at' = at + 1
    /\ UNCHANGED data

\* No JSON, an empty text or any other error: after the last attempt the chunk is
\* passed over.
Fail(outcome) ==
    /\ Try(outcome)
    /\ at' = IF Len(tries'[at]) < Retries THEN at ELSE at + 1
    /\ UNCHANGED <<data, results>>

\* Before another attempt the wait is printed, by a name that is not bound; the
\* error of that ends the call.
Exhausted(outcome) ==
    /\ Try(outcome)
    /\ at' = at + 1
    /\ UNCHANGED <<data, results>>

ChunksNext == AnswerChunk("result") \/ AnswerChunk("empty") \/ Fail("error") \/ Exhausted("quota")

ChunksSpec == ChunksInit /\ [][ChunksNext]_chunkVars

-----------------------------------------------------------------------------
(* Correctness *)

\* The chunks are the data: every item is in one of them, once and in its place.
ChunksAreTheData ==
    /\ FlattenSeq(Chunks) = data
    /\ \A i \in DOMAIN Chunks : Chunks[i] # <<>>

Tokens(chunk) == TotalOf(chunk, DOMAIN chunk)

\* No chunk is over the limit unless it is a single item, and none is closed early:
\* the first item of the next would not have fitted, or is one by itself too large.
ChunksAreFull ==
    \A i \in DOMAIN Chunks :
      /\ Tokens(Chunks[i]) <= Effective \/ Len(Chunks[i]) = 1
      /\ i < Len(Chunks) => Tokens(Chunks[i]) + Chunks[i + 1][1] > Effective

\* The final result is made of the chunks that gave one, in their order; every other
\* chunk has been given up for a reason: all its attempts, an empty answer, the quota.
ResultsAreAccounted ==
    LET gave(i) == tries[i] # <<>> /\ Last(tries[i]) = "result" IN
    /\ ToSet(results) = {i \in 1..(at - 1) : gave(i)}
    /\ \A i, j \in DOMAIN results : i < j => results[i] < results[j]
    /\ \A i \in 1..(at - 1) :
         \/ Last(tries[i]) \in {"result", "empty", "quota"}
         \/ Len(tries[i]) = Retries
    /\ \A i \in at..Len(Chunks) : Len(tries[i]) < Retries

\* Nothing of the data is lost on its way to the model and back without a reason: the
\* chunks are the data, in order and full, and the results are those of the chunks.
ChunkedDataIsAccounted == ChunksAreTheData /\ ChunksAreFull /\ ResultsAreAccounted

=============================================================================
