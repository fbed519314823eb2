----------------------------- MODULE CpuTopology -----------------------------
(***************************************************************************)
(* The shape of a CPU: packages of cores of threads, how the kernel numbers*)
(* the threads (one thread of every core first, then the second one of     *)
(* every core, ...), and the natural order in which the agent goes through *)
(* them (package by package, core by core), which is how the remote        *)
(* allocator numbers them.                                                 *)
(*                                                                         *)
(* A CPU has at least one package, a package one core, a core one thread.  *)
(***************************************************************************)
EXTENDS Naturals, Sequences

\* Dimensions of a CPU.
Shape(packages, cores, threads) ==
    [packages |-> packages, cores |-> cores, threads |-> threads]

CpuShapes == [packages : Nat \ {0}, cores : Nat \ {0}, threads : Nat \ {0}]

PackageIds(d) == 0 .. d.packages - 1
CoreIds(d) == 0 .. d.cores - 1
Rows(d) == 0 .. d.threads - 1

\* Mutant: the offset of a row counts the cores of one package only.
ThreadIdOfPackage(d, p, c, row) == row * d.cores + p * d.cores + c

ThreadId(d, p, c, row) == row * d.packages * d.cores + p * d.cores + c

ThreadCount(d) == d.packages * d.cores * d.threads
ThreadIds(d) == {ThreadId(d, p, c, row) :
                    p \in PackageIds(d), c \in CoreIds(d), row \in Rows(d)}

CoreThreads(d, p, c) == {ThreadId(d, p, c, row) : row \in Rows(d)}
PackageThreads(d, p) == UNION {CoreThreads(d, p, c) : c \in CoreIds(d)}

-----------------------------------------------------------------------------
\* Mutant: the rows of a package one after the other, as the kernel has them.
Natural2OriginalByRow(d) ==
    [i \in 0 .. ThreadCount(d) - 1 |->
        ThreadId(d, i \div (d.cores * d.threads),
                    i % d.cores, (i \div d.cores) % d.threads)]

\* Cpu.get_threads: the original id of the thread with each natural index.
Natural2Original(d) ==
    [i \in 0 .. ThreadCount(d) - 1 |->
        ThreadId(d, i \div (d.cores * d.threads),
                    (i \div d.threads) % d.cores,
                    i % d.threads)]

\* Mutant: counted from one.
Original2NaturalFromOne(d) ==
    [id \in ThreadIds(d) |->
        1 + CHOOSE i \in 0 .. ThreadCount(d) - 1 : Natural2Original(d)[i] = id]

\* The natural index of the thread with each id.
Original2Natural(d) ==
    [id \in ThreadIds(d) |->
        CHOOSE i \in 0 .. ThreadCount(d) - 1 : Natural2Original(d)[i] = id]

=============================================================================
