---------------------------- MODULE Capabilities ----------------------------
(***************************************************************************)
(* The capability service (src/src/ai/capability): what an agent observes   *)
(* is compared with the capabilities of its scope and added to them, counted *)
(* as evidence for one of them, or put in the place of its content.  A call *)
(* awaits the lookup, the decision and the write, so that calls interleave; *)
(* a person promotes and retires capabilities in between.                   *)
(*                                                                         *)
(* A text is the set of its words (tokenize); names, layers, tags and times *)
(* are left out, except whether a capability is retired.                    *)
(***************************************************************************)
EXTENDS Integers, FiniteSets, Functions

CONSTANTS Ids,              \* capability ids
          Scopes, Contents, \* scope keys; texts, as sets of words
          Callers,          \* concurrent callers of processObservation
          MaxObservations,  \* bound: calls of processObservation
          MaxEdits          \* bound: promotions and retirements

VARIABLES caps,          \* byId: [id -> capability], over the ids in use
          observations,  \* [caller -> its call], see Observe
          begun,         \* calls so far
          edits,
          strengthened,  \* history: [id -> evidence reported as added]
          overwritten,   \* history: an id was drawn twice, and a capability replaced
          overlapped     \* history: two calls were under way at a time

capabilityVars == <<caps, observations, begun, edits, strengthened, overwritten, overlapped>>

Maturities == {"observed", "recurring", "reliable", "foundational"}
Sources == {"agent_observation", "human_authored"}

Capability == [scope : Scopes, content : Contents, source : Sources, maturity : Maturities,
               evidence : Nat, retired : BOOLEAN,
               byHand : BOOLEAN]   \* history: a person set the maturity

\* A caller that has no call under way.
Idle == [at |-> "idle", text |-> {}, scope |-> "none", source |-> "none", similar |-> << >>, target |-> "none"]

\* jaccard, as a fraction: shared words of all words, zero where there are none.
Shared(a, b) == Cardinality(a \cap b)
AllWords(a, b) == Cardinality(a \cup b)

AtLeast(a, b, num, den) == AllWords(a, b) > 0 /\ den * Shared(a, b) >= num * AllWords(a, b)
Above(a, b, num, den) == den * Shared(a, b) > num * AllWords(a, b)
Likelier(text, a, b) == Shared(text, a) * AllWords(text, b) >= Shared(text, b) * AllWords(text, a)

\* findSimilar: what is valid in the scope and shares a word with the text.
FindSimilar(text, scope) ==
    {id \in DOMAIN caps : /\ caps[id].scope = scope /\ ~caps[id].retired
                          /\ Shared(text, caps[id].content) > 0}

\* processObservation up to its first await: the capabilities found are the
\* objects of that moment.
Observe(o, text, scope, source) ==
    /\ observations[o] = Idle /\ begun < MaxObservations
    /\ begun' = begun + 1
    /\ observations' = [observations EXCEPT ![o] =
           [at |-> "decide", text |-> text, scope |-> scope, source |-> source,
            similar |-> Restrict(caps, FindSimilar(text, scope)), target |-> "none"]]
    /\ overlapped' = (overlapped \/ \E p \in Callers : observations[p] # Idle)
    /\ UNCHANGED <<caps, edits, strengthened, overwritten>>

\* Seeded fault: the first capability found is taken, not the likeliest.
BugTop(text, similar) == DOMAIN similar

\* rankBySimilarity: the ids that may come first.
Top(text, similar) ==
    {id \in DOMAIN similar :
        \A other \in DOMAIN similar : Likelier(text, similar[id].content, similar[other].content)}

\* RuleBasedDecider.decide, on what was found: at least half alike strengthens,
\* above three tenths revises unless a person wrote it.
Verdict(text, c) ==
    CASE AtLeast(text, c.content, 1, 2) -> "strengthen"
      [] ~AtLeast(text, c.content, 1, 2) /\ Above(text, c.content, 3, 10) ->
             IF c.source = "human_authored" THEN "noop" ELSE "revise"
      [] OTHER -> "add"

Decide(o) ==
    LET call == observations[o] IN
    /\ call.at = "decide"
    /\ \/ /\ DOMAIN call.similar = {}
          /\ observations' = [observations EXCEPT ![o].at = "add"]
       \/ \E id \in Top(call.text, call.similar) :
             observations' = [observations EXCEPT ![o].at = Verdict(call.text, call.similar[id]),
                                                  ![o].target = id]
    /\ UNCHANGED <<caps, begun, edits, strengthened, overwritten, overlapped>>

Finish(o) == observations' = [observations EXCEPT ![o] = Idle]

\* A noop is returned as it is.
Noop(o) ==
    /\ observations[o].at = "noop" /\ Finish(o)
    /\ UNCHANGED <<caps, begun, edits, strengthened, overwritten, overlapped>>

\* newCapability, save: the id is four digits of the clock and four random ones
\* (the counter behind them is cut off), and save replaces what is stored under it.
Add(o) ==
    LET call == observations[o] IN
    /\ call.at = "add"
    /\ \E id \in Ids :
         /\ caps' = [k \in DOMAIN caps \cup {id} |->
               IF k = id THEN [scope |-> call.scope, content |-> call.text, source |-> call.source,
                               maturity |-> "observed", evidence |-> 0, retired |-> FALSE, byHand |-> FALSE]
               ELSE caps[k]]
         /\ overwritten' = (overwritten \/ id \in DOMAIN caps)
    /\ Finish(o)
    /\ UNCHANGED <<begun, edits, strengthened, overlapped>>

\* autoPromote: one rule at a time.
AutoPromote(c) ==
    CASE c.maturity = "observed" /\ c.evidence >= 2  -> [c EXCEPT !.maturity = "recurring"]
      [] c.maturity = "recurring" /\ c.evidence >= 4 -> [c EXCEPT !.maturity = "reliable"]
      [] OTHER -> c

\* Seeded fault: the update starts from the capability that was found.
BugFound(o) == observations[o].similar[observations[o].target]

\* store.update: the transform is applied to what is stored now.
Current(o) == caps[observations[o].target]

\* strengthen: one more piece of evidence, then autoPromote.
Strengthen(o) ==
    /\ observations[o].at = "strengthen"
    /\ caps' = [caps EXCEPT ![observations[o].target] =
                    AutoPromote([Current(o) EXCEPT !.evidence = @ + 1])]
    /\ strengthened' = [strengthened EXCEPT ![observations[o].target] = @ + 1]
    /\ Finish(o)
    /\ UNCHANGED <<begun, edits, overwritten, overlapped>>

\* revise: refused for what a person wrote, whatever the decision was made on.
Revise(o) ==
    /\ observations[o].at = "revise"
    /\ caps' = IF Current(o).source = "human_authored" THEN caps
               ELSE [caps EXCEPT ![observations[o].target] = [Current(o) EXCEPT !.content = observations[o].text]]
    /\ Finish(o)
    /\ UNCHANGED <<begun, edits, strengthened, overwritten, overlapped>>

\* promote and retire, through store.update.
Edit(id, change) ==
    /\ edits < MaxEdits /\ edits' = edits + 1
    /\ caps' = [caps EXCEPT ![id] = change]
    /\ UNCHANGED <<observations, begun, strengthened, overwritten, overlapped>>

Promote(id, to) == Edit(id, [caps[id] EXCEPT !.maturity = to, !.byHand = TRUE])

Retire(id) == Edit(id, [caps[id] EXCEPT !.retired = TRUE])

CapabilitiesInit ==
    /\ caps = << >> /\ observations = [o \in Callers |-> Idle] /\ begun = 0 /\ edits = 0
    /\ strengthened = [id \in Ids |-> 0] /\ overwritten = FALSE /\ overlapped = FALSE

CapabilitiesNext ==
    \/ \E o \in Callers, text \in Contents, scope \in Scopes, source \in Sources :
           Observe(o, text, scope, source)
    \/ \E o \in Callers : Decide(o) \/ Noop(o) \/ Add(o) \/ Strengthen(o) \/ Revise(o)
    \/ \E id \in DOMAIN caps : Retire(id) \/ \E to \in Maturities : Promote(id, to)

CapabilitiesSpec == CapabilitiesInit /\ [][CapabilitiesNext]_capabilityVars

-----------------------------------------------------------------------------

\* Type invariant of the capability service.
CapabilitiesTypeOK ==
    /\ DOMAIN caps \subseteq Ids /\ \A id \in DOMAIN caps : caps[id] \in Capability
    /\ \A o \in Callers : observations[o].at \in {"idle", "decide", "noop", "add", "strengthen", "revise"}
    /\ begun \in 0 .. MaxObservations /\ edits \in 0 .. MaxEdits /\ strengthened \in [Ids -> Nat]

\* No evidence is lost however the calls overlap, and a capability is called
\* recurring or reliable only with the evidence for it, or by a person (unless an
\* id was drawn twice).
EvidenceAccounted ==
    ~overwritten =>
        /\ \A id \in Ids : strengthened[id] = IF id \in DOMAIN caps THEN caps[id].evidence ELSE 0
        /\ \A id \in DOMAIN caps : ~caps[id].byHand =>
               caps[id].maturity = CASE caps[id].evidence < 2 -> "observed"
                                     [] caps[id].evidence \in 2 .. 3 -> "recurring"
                                     [] OTHER -> "reliable"

\* Observations that do not overlap leave no two valid capabilities of a scope that
\* are half alike or more: add, strengthen and revise each keep them apart.
NoNearDuplicates ==
    ~overlapped =>
        \A a, b \in DOMAIN caps :
            (a # b /\ caps[a].scope = caps[b].scope /\ ~caps[a].retired /\ ~caps[b].retired) =>
                ~AtLeast(caps[a].content, caps[b].content, 1, 2)
===============================================================================
