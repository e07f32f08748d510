------------------------------ MODULE ChatFlow ------------------------------
(***************************************************************************)
(* POST /api/chat of one tenant (api/server.py, chat_context.py), on pool  *)
(* threads: the context block is read, the model is called, the exchange   *)
(* is written.  Of the window only what ContextWindow proves is used: an   *)
(* add may prune any messages but the protected ones.                      *)
(***************************************************************************)
EXTENDS Integers, Sequences, FiniteSetsExt

CONSTANTS
  Chats,
  Sizes,        \* tokens of a message
  MaxMessages,  \* CHAT_CONTEXT_MAX_MESSAGES, positive
  MaxTokens     \* CHAT_CONTEXT_MAX_TOKENS

VARIABLES
  window,  \* the tenant's messages
  phase,   \* where each chat stands
  block    \* the messages in its context block, by position, until the reply

vars == <<window, phase, block>>

Init ==
  /\ window = <<>>
  /\ phase = [c \in Chats |-> "unborn"]
  /\ block = [c \in Chats |-> {}]

Step(c, from, to) == phase[c] = from /\ phase' = [phase EXCEPT ![c] = to]

\* The positions in the window of what is not pruned (get_messages).
Active == {i \in DOMAIN window : ~window[i].pruned}

From(S, i) == {j \in S : j >= i}

Tokens(S) == MapThenSumSet(LAMBDA i : window[i].size, S)

\* The last of them.
Recent(S) == {i \in S : Cardinality(From(S, i)) <= MaxMessages}

\* Mutated form of Fit: the newest are cut.
FitOldest(S) ==
  {i \in S : LET older == {j \in S : j <= i} IN older = {i} \/ Tokens(older) <= MaxTokens}

\* The loop drops the oldest message while the block is over budget and has another.
Fit(S) == {i \in S : From(S, i) = {i} \/ Tokens(From(S, i)) <= MaxTokens}

\* build_context_block: get_messages, the last of them, as many as fit.  What
\* recall adds from semantic memory has no budget and is left out.
Read(c) ==
  /\ Step(c, "unborn", "asking")
  /\ block' = [block EXCEPT ![c] = Fit(Recent(Active))]
  /\ UNCHANGED window

\* ContextWindowManager.add: an unprotected message, the new one included, may go.
Add(message) ==
  LET longer == Append(window, message) IN
  \E victims \in SUBSET {i \in DOMAIN longer : ~longer[i].grounding} :
    window' = [i \in DOMAIN longer |->
                 IF i \in victims THEN [longer[i] EXCEPT !.pruned = TRUE] ELSE longer[i]]

Message(c, role, size, grounding) ==
  [chat |-> c, role |-> role, size |-> size, grounding |-> grounding, pruned |-> FALSE]

\* There is always a reply, the stub's when the provider fails or there is none.
RememberUser(c) ==
  /\ Step(c, "asking", "questioned")
  /\ \E size \in Sizes : Add(Message(c, "user", size, TRUE))
  /\ block' = [block EXCEPT ![c] = {}]

RememberReply(c) ==
  /\ Step(c, "questioned", "exchanged")
  /\ \E size \in Sizes : Add(Message(c, "assistant", size, FALSE))
  /\ UNCHANGED block

\* A name in the message becomes a fact of semantic memory (SemanticStore).
RememberName(c) ==
  /\ Step(c, "exchanged", "answered")
  /\ UNCHANGED <<window, block>>

\* The insert raises (a locked database): an error answers a chat that is in the window.
NameFails(c) ==
  /\ Step(c, "exchanged", "failed")
  /\ UNCHANGED <<window, block>>

Next ==
  \E c \in Chats :
    \/ Read(c) \/ RememberUser(c) \/ RememberReply(c)
    \/ RememberName(c) \/ NameFails(c)

-----------------------------------------------------------------------------
\* What the window holds from the question of chat d on.
Since(d) ==
  From(Active, CHOOSE i \in DOMAIN window : window[i].chat = d /\ window[i].role = "user")

\* Chat has a memory (remember_exchange, build_context_block): a chat that
\* begins when another was answered is given that one's question, however the
\* two and others interleave and whatever was pruned, unless what came since
\* is too much for a block.
AnsweredRemembered ==
  [][\A c, d \in Chats :
       /\ phase[c] = "unborn" /\ phase'[c] = "asking" /\ phase[d] = "answered"
       /\ Cardinality(Since(d)) <= MaxMessages /\ Tokens(Since(d)) <= MaxTokens
       => \E i \in block'[c] : window[i].chat = d /\ window[i].role = "user"]_vars

=============================================================================
