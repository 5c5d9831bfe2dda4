------------------------------- MODULE MCStartup -------------------------------
(***************************************************************************)
(* Instances of Startup for TLC: each variable of the environment unset,   *)
(* at the boundaries, and wrong; lists of up to three addresses, and files *)
(* of up to three lines.                                                   *)
(***************************************************************************)
EXTENDS Startup

good    == Entry("good",    TRUE,  TRUE,  50051)
other   == Entry("other",   TRUE,  TRUE,  65535)
noColon == Entry("noColon", TRUE,  FALSE, NotANumber)
noHost  == Entry("noHost",  FALSE, TRUE,  1)
noPort  == Entry("noPort",  TRUE,  TRUE,  NotANumber)
zero    == Entry("zero",    TRUE,  TRUE,  0)
beyond  == Entry("beyond",  TRUE,  TRUE,  65536)

Entries   == {Blank, good, other, noColon, noHost, noPort, zero, beyond}
PortTexts == {Unset, NotANumber, -1, 0, 1, 65535, 65536}
Lists     == {Unset} \cup BoundedSeq(Entries, 3)
FewLists  == {Unset, <<>>, <<good>>, <<other, good>>, <<zero>>}

Compose ==
  [PORT       |-> Unset,
   ADDRESSES  |-> [s \in Services |-> <<good, other>>],
   REDIS_HOST |-> "redis", REDIS_PORT |-> 6379,
   BLACKLIST  |-> <<Line(FALSE, TRUE, "comment", FALSE), Line(FALSE, FALSE, "x", FALSE)>>]

OneList  == { [Compose EXCEPT !.ADDRESSES[s] = list] : s \in Services, list \in Lists }
AllLists == { [Compose EXCEPT !.ADDRESSES = lists] : lists \in [Services -> FewLists] }
OtherVariables ==
  { [Compose EXCEPT !.PORT = port, !.REDIS_HOST = host, !.REDIS_PORT = redis] :
      port \in PortTexts, redis \in PortTexts, host \in {Unset, "", "redis"} }

\* A comment and an address with and without blanks, an address with a
\* carriage return, another address, and a line of nothing.
Lines == { Line(blanks, hash, "x", FALSE) : blanks \in BOOLEAN, hash \in BOOLEAN }
           \cup { Line(FALSE, FALSE, "x", TRUE), Line(FALSE, FALSE, "y", FALSE),
                  Line(FALSE, FALSE, NoText, FALSE) }
Files == { [Compose EXCEPT !.BLACKLIST = file] : file \in {Unset} \cup BoundedSeq(Lines, 3) }

Varied      == OneList \cup AllLists \cup OtherVariables \cup Files
JustCompose == {Compose}

\* Every path with a limit, its beginnings, and what goes on from it; and the
\* paths of the admin routes.
MorePaths ==
  LET limited == {Rules[i].path : i \in DOMAIN Rules}
  IN Routes \cup limited
       \cup { Append(p, "more") : p \in Routes \cup limited }
       \cup { SubSeq(p, 1, n) : p \in Routes, n \in 0 .. 2 }
       \cup { <<"admin/blacklist">>, <<"admin/blacklist", "/add">>,
              <<"admin/blacklist", "/remove">> }

=============================================================================
