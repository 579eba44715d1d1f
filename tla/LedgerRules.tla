---------------------------- MODULE LedgerRules ----------------------------
(***************************************************************************)
(* What the review-plan floor says of an epic's ledger: the dependency     *)
(* graph an epic body declares, its cycles, and the hard defects.          *)
(*                                                                         *)
(* A parsed Dependencies section is a sequence of phases, each a set of    *)
(* rows [issue, requires].  A child is what its body and labels parse to.  *)
(***************************************************************************)
EXTENDS Integers, FiniteSets, SequencesExt

(* Faulty variant: only the phase default is lowered to edges. *)
PhaseOrderOnly(phases) ==
  {e \in UNION {{<<row.issue, prior.issue>> : row \in phases[k], prior \in UNION {phases[j] : j \in 1..(k - 1)}}
                : k \in DOMAIN phases} : e[1] # e[2]}

(* A row waits on what it requires; a row that requires nothing waits on   *)
(* every row of every earlier phase; nothing waits on itself.              *)
LowerEdges(phases) ==
  LET earlier(k) == {row.issue : row \in UNION {phases[j] : j \in 1..(k - 1)}}
      waits(k, row) == IF row.requires # {} THEN row.requires ELSE earlier(k)
  IN {e \in UNION {UNION {{<<row.issue, r>> : r \in waits(k, row)} : row \in phases[k]}
                   : k \in DOMAIN phases} : e[1] # e[2]}

Nodes(phases) ==
  UNION {{row.issue} \cup row.requires : row \in UNION {phases[k] : k \in DOMAIN phases}}

(* The depth-first search of findCycles, a turn of its loops at a time:    *)
(* nodes and successors in ascending order, a cycle recorded whenever an   *)
(* edge closes on the stack.  White nodes are still to enter, the edges    *)
(* left still to look at; grey is the stack, and black all else.           *)
Entered(s, n) == [s EXCEPT !.white = @ \ {n}, !.stack = Append(@, n)]

ClosedBy(stack, n) ==
  LET from == CHOOSE i \in DOMAIN stack : stack[i] = n
  IN {stack[i] : i \in from..Len(stack)}

SearchStep(s) ==
  IF s.stack = <<>> THEN IF s.white = {} THEN s ELSE Entered(s, Min(s.white))
  ELSE LET top == s.stack[Len(s.stack)]
           next == {e[2] : e \in {e \in s.left : e[1] = top}}
           n == Min(next)
           looked == [s EXCEPT !.left = @ \ {<<top, n>>}]
       IN IF next = {} THEN [s EXCEPT !.stack = SubSeq(@, 1, Len(@) - 1)]
          ELSE IF n \in ToSet(s.stack) THEN [looked EXCEPT !.cycles = @ \cup {ClosedBy(s.stack, n)}]
          ELSE IF n \in s.white THEN Entered(looked, n) ELSE looked

(* A node is entered and left once, an edge looked at once.                *)
FindCycles(edges) ==
  LET nodes == UNION {{e[1], e[2]} : e \in edges}
      turns == Cardinality(edges) + 2 * Cardinality(nodes)
      search[k \in 0..turns] ==
        IF k = 0 THEN [white |-> nodes, stack |-> <<>>, left |-> edges, cycles |-> {}]
        ELSE SearchStep(search[k - 1])
  IN search[turns].cycles

Defect(type, refs) == [type |-> type, refs |-> refs]
Each(type, refs) == {Defect(type, {r}) : r \in refs}

(* The defects of one child. *)
ChildDefects(ledger, n) ==
  LET child == ledger.children[n]
  IN {d \in {Defect("ZERO_AC", {n}), Defect("MISSING_STORY", {n}), Defect("MISSING_LABEL", {n}),
             Defect("MISSING_CONTAINMENT", {n}), Defect("NEEDS_TRIAGE_LABEL", {n})} :
        \/ d.type = "ZERO_AC" /\ child.criteria = 0
        \/ d.type = "MISSING_STORY" /\ ledger.stories # {} /\ child.stories = {"absent"}
        \/ d.type = "MISSING_LABEL" /\ ~child.labelled
        \/ d.type = "MISSING_CONTAINMENT" /\ ledger.cycleDoc /\ child.containment \in {"absent", "none"}
        \/ d.type = "NEEDS_TRIAGE_LABEL" /\ "needs-triage" \in child.stages}

(* An empty ledger fails closed on that alone. *)
ValidateLedger(ledger, epic) ==
  LET kids == DOMAIN ledger.children
      nodes == IF ledger.present THEN Nodes(ledger.phases) ELSE {}
      edges == IF ledger.present THEN LowerEdges(ledger.phases) ELSE {}
      covered == UNION {ledger.children[n].stories : n \in kids}
  IN IF kids = {} THEN {Defect("ZERO_SCOPE", {epic})}
     ELSE (IF ledger.present THEN {} ELSE {Defect("MISSING_DEPS_SECTION", {epic})})
          \cup {Defect("DEP_CYCLE", c) : c \in FindCycles(edges)}
          \cup Each("DANGLING_DEP", nodes \ (kids \cup {epic} \cup ledger.external))
          \cup (IF ledger.present THEN Each("ORPHAN_CHILD", kids \ nodes) ELSE {})
          \cup (IF ledger.stories = {} THEN {Defect("MISSING_STORIES_SECTION", {epic})} ELSE {})
          \cup {Defect("UNCOVERED_STORY", {s}) : s \in ledger.stories \ covered}
          \cup UNION {ChildDefects(ledger, n) : n \in kids}

-----------------------------------------------------------------------------
(* What the floor is for, stated without the search: from no child can one *)
(* come back to it by what it waits on, everything named exists, and every *)
(* child is complete.                                                      *)

WaitsForever(edges, n) ==
  \A S \in SUBSET UNION {{e[1], e[2]} : e \in edges} :
    (\A e \in edges : e[1] \in S \cup {n} => e[2] \in S) => n \in S
=============================================================================
