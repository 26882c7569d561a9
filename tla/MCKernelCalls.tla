--------------------------- MODULE MCKernelCalls ---------------------------
EXTENDS KernelCalls

CONSTANTS c1, c2

\* The operands a step has in a role.
InRole(step, role) ==
    IF role \notin DOMAIN step THEN {} ELSE IF role = "on" THEN {step.on} ELSE step[role]

\* The roles of an operand in each step of the requests rs.
Occurrences(rs, o) ==
    [i \in DOMAIN rs |-> [j \in DOMAIN rs[i].prog |->
        {role \in {"on", "uses", "keep"} : o \in InRole(rs[i].prog[j], role)}]]

\* The requests without the names of the operands.
Outline(rs) ==
    [i \in DOMAIN rs |->
        <<[j \in DOMAIN rs[i].prog |->
            LET step == rs[i].prog[j] IN
            <<step.do, IF step.do = "launch" THEN step.then ELSE "">>],
          Head(rs[i].mock).do, rs[i].lib = "nccl", rs[i].lib \in {"blocking_thread", "cub_task"}>>]

\* Callers x whose requests rs differ in the names of the operands only behave
\* alike; of operands with the same occurrences it matters whether there are
\* several.
Shape(x, rs) ==
    LET os == UNION {rs[i].refs : i \in DOMAIN rs}
        place == [o \in os |-> <<Occurrences(rs, o), o \in x.keeps>>]
    IN  <<x.bounded, x.checks, x.holds, Outline(rs), Range(place),
          {place[o] : o \in {p \in os : \E q \in os \ {p} : place[q] = place[p]}}>>

OneOfEach(shape) == {CHOOSE e \in DOMAIN shape : shape[e] = s : s \in Range(shape)}

Kinds ==
    OneOfEach([e \in DOMAIN Entries |->
        Shape(Entries[e], [i \in DOMAIN Entries[e].asks |-> Requests[Entries[e].asks[i]]])])

\* Every kind of entry alone, and a host result with a download.
MCWorkloads ==
    {c1 :> e @@ c2 :> "idle" : e \in Kinds} \cup {c1 :> "nrm2" @@ c2 :> "copy_to_host"}
=============================================================================
