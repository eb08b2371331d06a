---------------------------- MODULE Placeholders ----------------------------
(***************************************************************************)
(* What _interpolate promises (config/resolver.py), as a graph: every text *)
(* of a configuration is a place with the literal parts it is made of and  *)
(* the places its ${...} placeholders refer to.  A pass replaces all       *)
(* placeholders at once, by what their places held before the pass.        *)
(* ConfigResolver, which follows the code's walk over the configuration,   *)
(* is checked to implement this module.                                    *)
(***************************************************************************)
EXTENDS Naturals, FiniteSets

CONSTANTS Parts,       \* literal parts of texts
          Nowhere,     \* what a placeholder refers to that no text is found for
          MaxPasses    \* _MAX_INTERPOLATION_PASSES

\* What a text may be, given the places there are.
Vertex(places) == [parts : SUBSET Parts, refs : SUBSET (places \cup {Nowhere})]

\* The texts a configuration may have.
IsGraph(g) == /\ IsFiniteSet(DOMAIN g)
              /\ Nowhere \notin DOMAIN g
              /\ g \in [DOMAIN g -> Vertex(DOMAIN g)]

VARIABLES origin,   \* history: the texts before the first pass
          text,     \* the texts now
          passes,   \* passes that have replaced something
          span,     \* history: how many references a placeholder stands for
          outcome

passVars == <<origin, text, passes, span, outcome>>

PassInit == /\ origin = [p \in {} |-> Nowhere]
            /\ text = origin
            /\ passes = 0
            /\ span = 1
            /\ outcome = "waiting"

\* _interpolate is called, with any configuration.
Begin == /\ outcome = "waiting"
         /\ IsGraph(origin')
         /\ text' = origin'
         /\ outcome' = "interpolate"
         /\ UNCHANGED <<passes, span>>

Resolvable(g) == \A p \in DOMAIN g : g[p].refs \subseteq DOMAIN g

Converged == \A p \in DOMAIN text : text[p].refs = {}

\* substitute, for every text.
Substituted(g) ==
  [p \in DOMAIN g |->
     [parts |-> g[p].parts \cup UNION {g[q].parts : q \in g[p].refs},
      refs |-> UNION {g[q].refs : q \in g[p].refs}]]

\* One pass.
Pass == /\ outcome = "interpolate"
        /\ IF Converged
             THEN /\ outcome' = "resolved"
                  /\ UNCHANGED <<text, passes, span>>
           ELSE IF ~Resolvable(text)
             THEN /\ outcome' = "unresolved"
                  /\ UNCHANGED <<text, passes, span>>
           ELSE /\ text' = Substituted(text)
                /\ passes' = passes + 1
                /\ span' = 2 * span
                /\ outcome' = IF passes' = MaxPasses THEN "unresolved"
                                                     ELSE outcome
        /\ UNCHANGED origin

PassSpec == PassInit /\ [][Begin \/ Pass]_passVars

----------------------------------------------------------------------------
(* Properties.                                                             *)

Closed(g, N) == \A p \in N : g[p].refs \subseteq N

\* The places that a text leads to, itself included.
Leads(g, p) == {q \in DOMAIN g :
                  \A N \in SUBSET DOMAIN g : p \in N /\ Closed(g, N) => q \in N}

\* What a text means: its own parts and those of all texts it leads to.
Meaning(g, p) == UNION {g[q].parts : q \in Leads(g, p)}

\* Some texts refer to each other for ever.
Cyclic(g) == \E N \in (SUBSET DOMAIN g) \ {{}} :
               \A p \in N : g[p].refs \cap N # {}

\* A configuration that _interpolate returns had no reference to nothing and no
\* circular one, and every text in it is what its placeholders mean, however
\* many texts refer to each other and in whatever way.
ResolvedTextsAreExact ==
  outcome = "resolved" =>
    /\ Resolvable(origin)
    /\ ~Cyclic(origin)
    /\ \A p \in DOMAIN origin :
         text[p] = [parts |-> Meaning(origin, p), refs |-> {}]

\* The texts with placeholders.
Linked(g) == {p \in DOMAIN g : g[p].refs # {}}

\* A configuration is refused for a reference to nothing or a circular one, or
\* at the limit on passes ("check for a circular ${...} reference",
\* resolver.py:244) if at least half of two to the power of that limit, sixteen
\* for the five passes of the code, of its texts have placeholders.
RefusalsAreJustified ==
  outcome = "unresolved" =>
    \/ ~Resolvable(origin)
    \/ Cyclic(origin)
    \/ passes = MaxPasses /\ span <= 2 * Cardinality(Linked(origin))
=============================================================================
