-------------------------------- MODULE MCEVMTick --------------------------------
EXTENDS EVMTick

\* Pushes of small words and of any word.
P(w) == <<96, w>>
PP(w) == <<97, w \div 256, w % 256>>

Edge == {0, 1, 2, 7, 8, 15, 16, 17, 255, 256, 32768, 65535}

WordPrograms ==
  {PP(y) \o PP(x) \o <<op>> :
      op \in {11, 26, 27, 28, 29}, x \in Edge, y \in Edge \cup {127, 128, 32767, 33023}}
  \cup {PP(y) \o PP(x) \o <<10>> : x \in Edge, y \in {0, 1, 2, 3, 6, 12, 40}}
  \cup {P(3) \o PP(y) \o PP(x) \o <<op>> :
      op \in WordOps \ {10, 11, 26, 27, 28, 29}, x \in {0, 2, 7, 65533}, y \in {0, 3, 128}}

\* Jumps to every place, over and into data, forward and back.
JumpPrograms ==
  {P(t) \o s : t \in 0 .. 6, s \in [1 .. 4 -> {86, 87, 91, 96}]}
  \cup {P(c) \o P(t) \o <<87>> \o s : c \in {0, 1}, t \in 0 .. 8, s \in [1 .. 3 -> {91, 97, 88}]}

\* Four bytes of memory, 1 to 4.
Seed == PP(258) \o <<95, 82>> \o PP(772) \o P(2) \o <<82>>

CopyPrograms ==
  {Seed \o PP(size) \o PP(from) \o PP(to) \o <<op>> :
      op \in {55, 57, 94}, size \in {0, 1, 2, 3, 257},
      from \in {0, 1, 2, 3, 5, 256, 128, 65535}, to \in {0, 1, 2, 4, 65280, 65535}}
  \cup {Seed \o P(size) \o P(from) \o P(to) \o P(9) \o <<60>> :
      size \in {0, 2, 3}, from \in {0, 1, 4}, to \in {0, 3}}
  \cup {<<95, 95, 95, 95, 96, 20, 95, 250>> \o P(size) \o P(from) \o P(to) \o <<62, 61>> :
      size \in {0, 2, 3}, from \in {0, 1, 4}, to \in {0, 3}}

CallPrograms ==
  {Seed \o P(rs) \o P(ro) \o P(as) \o P(ao) \o P(t) \o <<95, op>> :
      rs \in {0, 1, 2, 3}, ro \in {0, 1, 3}, as \in {0, 2, 3}, ao \in {0, 1, 8},
      t \in {2, 3, 4, 20}, op \in {244, 250}}
  \cup {Seed \o P(rs) \o P(ro) \o P(as) \o P(0) \o <<95>> \o P(t) \o <<95, op>> :
      rs \in {1, 2}, ro \in {0, 3}, as \in {1, 9}, t \in {4, 20}, op \in {241, 242}}
  \cup {PP(v) \o P(2) \o <<82>> \o P(rs) \o P(ro) \o P(8) \o P(ao) \o <<96, 1, 95, 250>> :
      v \in {0, 26, 27, 28, 29}, rs \in {1, 2, 3}, ro \in {0, 5, 7}, ao \in {0, 1}}

EndPrograms ==
  {Seed \o PP(size) \o PP(offset) \o <<op, 91>> :
      op \in {243, 253}, size \in {0, 1, 3, 16, 5, 32768, 65535}, offset \in {0, 2, 3, 6, 7, 65535}}

EveryOpcode == {<<op>> : op \in 0 .. 255}

MCPrograms ==
  WordPrograms \cup JumpPrograms \cup CopyPrograms \cup CallPrograms \cup EndPrograms
    \cup {P(7) \o P(6) \o P(5) \o P(4) \o P(3) \o P(2) \o P(1) \o s : s \in EveryOpcode}
    \cup {P(5) \o s : s \in EveryOpcode} \cup EveryOpcode

MCListing ==
  [program \in Bytes |->
     FoldLeft(LAMBDA starts, i : IF i - 1 \in starts THEN starts \cup {After(program, i - 1)}
                                 ELSE starts,
              {0}, [i \in 1 .. Len(program) |-> i])]

MCCalldatas == {<<7, 8, 9>>}
MCForeignCodes == {<<>>, <<5, 6, 7>>}
MCAnswers == {[success |-> TRUE, data |-> <<>>], [success |-> TRUE, data |-> <<9, 8, 7>>],
              [success |-> FALSE, data |-> <<6>>]}
MCEnvironment == {0, 1057}
MCUnknown == {0, 91}
=============================================================================
