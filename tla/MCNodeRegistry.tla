-------------------------- MODULE MCNodeRegistry --------------------------
(* Small instances of NodeRegistry for TLC.                                *)
EXTENDS NodeRegistry, TLC

\* Models and secrets are only compared with one another, and so are the
\* machines other than the default one.
RegistrySymmetry == Permutations(Nodes \ {DefaultNode})
                    \cup Permutations(Models) \cup Permutations(Secrets)

\* The bounds of the run: a second other machine only where one model is in
\* play, and either one, or a changed secret, only where no conversation is.
InPlay == {primary[n] : n \in Nodes} \cup {env.model} \cup
          {m \in Models : \E n \in Nodes : served[n][m] # "none"}
Bounded ==
  LET one     == Cardinality({n \in Nodes : status[n] # "unborn"}) <= 2
      current == \A n \in Nodes : stored[n] # None => stored[n].secret = env.secret
  IN  /\ one \/ InPlay \subseteq {env.model, None}
      /\ (one /\ current) \/ \A c \in Convs : conv[c] = None
=============================================================================
