--------------------------- MODULE MCSigningServer ---------------------------
(* SigningServer on small instances. *)
EXTENDS SigningServer, TLC

\* Participants, transactions, the key pairs and the spellings of one key are
\* interchangeable, as long as eligible keys stay eligible; used by the runs
\* that check safety only.
Symmetry ==
  Permutations(Pids) \cup Permutations(Txs)
    \cup {f \in Permutations(Keys) :
            /\ {{f[k] : k \in pair} : pair \in KeyPairs} = KeyPairs
            /\ \A k \in Keys : isKeyEligible(f[k]) = isKeyEligible(k)}
=============================================================================
