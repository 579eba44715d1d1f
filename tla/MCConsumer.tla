----------------------------- MODULE MCConsumer -----------------------------
(* A toolkit that has shipped two skills and dropped one of them, one document
   template and one optional workflow. *)
EXTENDS Consumer

CONSTANTS s1, s2, doc, w1

MCSkills == {s1, s2}
MCTemplates == {doc}
MCWorkflows == {w1}
MCInstalls == {{s1, s2}, {s1}}
=============================================================================
