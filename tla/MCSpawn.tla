------------------------------ MODULE MCSpawn ------------------------------
EXTENDS Spawn

(* Where a segment begins in its page, and how long it and its file can be *)
Starts == {0, 1, PG - 1}
Sizes  == {0, 1, PG - 1, PG, PG + 1, 2 * PG}

Segment(va, filesz, memsz) == [load |-> TRUE, va |-> va, filesz |-> filesz, memsz |-> memsz]

Segments(page, sizes) ==
  {Segment(page * PG + o, f, m) : o \in Starts, f \in sizes, m \in sizes \ {0}}

Proper(s) == s.filesz <= s.memsz

(* A header that is not PT_LOAD *)
Note == [load |-> FALSE, va |-> 0, filesz |-> 1, memsz |-> 1]

(* user.ld gives each segment pages of its own. *)
NextPage(s) == (s.va + s.memsz + PG - 1) \div PG

MCImages ==
  {<<s>> : s \in {t \in Segments(1, Sizes) : Proper(t)}}
    \union UNION {{<<s, Note, t>> : t \in {u \in Segments(NextPage(s), {0, 1, PG}) : Proper(u)}} :
                    s \in {u \in Segments(1, {1, PG}) : Proper(u)}}

MCArgvs == {<<>>, <<0>>, <<1>>, <<3>>, <<4>>, <<1, 2>>, <<2, 0>>, <<5, 7, 1>>}
=============================================================================
