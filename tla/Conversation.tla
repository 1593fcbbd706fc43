---------------------------- MODULE Conversation ----------------------------
(***************************************************************************)
(* engine/src/chat/conversation.cpp: the turns of one dialogue, and the    *)
(* cap that drops the oldest of them when they no longer fit the context.  *)
(* The system prompt is not a turn: a budget here is what it leaves.       *)
(***************************************************************************)
EXTENDS Integers, Sequences, FiniteSetsExt

\* of: the replies whose text the turn is made of; a prompt has none.
Turn == [role : {"user", "assistant"}, of : SUBSET Nat]

Prompt    == [role |-> "user", of |-> {}]
Reply(of) == [role |-> "assistant", of |-> of]

AddUser(d)          == Append(d, Prompt)
AddAssistant(d, of) == Append(d, Reply(of))

\* What a turn costs: a share for its delimiters, and one for its text, which a
\* reply that ended before its first token has not.
EstimateTokens(turn) == 1 + Cardinality(turn.of)

EstimatedTokens(d) ==
  LET total[n \in 0 .. Len(d)] == IF n = 0 THEN 0 ELSE total[n - 1] + EstimateTokens(d[n])
  IN total[Len(d)]

\* All but the oldest k turns.
Without(d, k) == SubSeq(d, k + 1, Len(d))

\* Drop the oldest turns until the rest fits; if any were dropped, drop the
\* assistant's that are then in front.  The newest turn always stays.  (Faulty
\* variant: the assistant's stay.)
Older(d) == Len(d) - 1

Trim(d, budget) ==
  Min({k \in 0 .. Older(d) : k = Older(d) \/ EstimatedTokens(Without(d, k)) <= budget})

CapToTokensOnly(d, budget) == Without(d, Trim(d, budget))
CapToTokens(d, budget) ==
  IF Trim(d, budget) = 0 THEN d
  ELSE Without(d, Min({k \in Trim(d, budget) .. Older(d) :
                         k = Older(d) \/ d[k + 1].role = "user"}))

=============================================================================
