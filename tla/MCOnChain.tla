------------------------------ MODULE MCOnChain ------------------------------
(***************************************************************************)
(* The curve y^2 = x^3 + 3 over the field of 19 elements has 13 points; it *)
(* is BN254's equation, with the same order of the two moduli.  Transac-   *)
(* tions carry honest proofs and what can be made of them, and inputs that *)
(* were proved, others, and the same ones plus the order of the group.     *)
(***************************************************************************)
EXTENDS OnChain

\* The multiples of (1, 2).
MCG1 == << << 1, 2 >>, << 14, 12 >>, << 11, 2 >>, << 7, 17 >>, << 3, 12 >>, << 2, 12 >>,
           << 2, 7 >>, << 3, 7 >>, << 7, 2 >>, << 11, 17 >>, << 14, 7 >>, << 1, 17 >> >>
MCG2 == [k \in 1 .. 12 |-> [x |-> [c0 |-> k, c1 |-> (k + 5) % 19],
                            y |-> [c0 |-> (2 * k) % 19, c1 |-> (3 * k + 1) % 19]]]

Key == [alpha |-> 2, beta |-> 5, gamma |-> 3, delta |-> 7, ic |-> << 4, 9, 11 >>]
MCVerifyingKey ==
    {Key, [Key EXCEPT !.ic = << 4, 9 >>], [Key EXCEPT !.ic = << 4, 0, 11 >>],
     [alpha |-> 1, beta |-> 8, gamma |-> 6, delta |-> 10, ic |-> << 12, 1, 5 >>]}

MCProvable == {<< 3, 7 >>, << 12, 0 >>}
MCInput ==
    MCProvable \cup {<< 7, 3 >>, << 3 + 13, 7 >>, << 3, 7 + 13 >>, << 12, 26 >>, << 12 + 39, 13 >>}

\* Proofs for the provable inputs under a deployable key.  Nobody makes a proof for
\* anything else, by accident neither: in so small a group it would happen.
DeployableKeys == {vk \in MCVerifyingKey : Len(vk.ic) = 3 /\ 0 \notin {vk.ic[1], vk.ic[2], vk.ic[3]}}
Proves(proof, inputs) == \E vk \in DeployableKeys : NativeVerify(vk, proof, inputs)
Logs == {1, 2, 6, 9, 12}
MCProof ==
    {proof \in [a : Logs, b : Logs, c : 0 .. 12] :
        /\ \E inputs \in MCProvable : Proves(proof, inputs)
        /\ ~Proves(proof, << 7, 3 >>)}

MCCalldata ==
    LET sent == {p \in MCProof : p.c # 0 /\ p.a < 9 /\ p.b < 9}
        honest == {ExportProof(p) : p \in sent}
        blank == {p \in sent : ~Proves([p EXCEPT !.a = 0], << 7, 3 >>)}
    IN  honest
        \cup {[p EXCEPT !.a = << p.a[1], p.a[2] + 19 >>] : p \in honest}
        \cup {[p EXCEPT !.c = << p.c[1], p.c[2] + 19 >>] : p \in honest}
        \cup {[p EXCEPT !.b = << << p.b[1][2], p.b[1][1] >>, p.b[2] >>] : p \in honest}
        \cup {[ExportProof(p) EXCEPT !.a = << 0, 0 >>] : p \in blank}
==============================================================================
