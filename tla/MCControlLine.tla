---------------------------- MODULE MCControlLine ----------------------------
(* Instances of ControlLine for TLC. *)
EXTENDS ControlLine

CONSTANTS a, b, stor, type, chmod, list,
          cwd_, cdup_, pwd_, quit_, site_, stop_, stor_, type_, chmod_, list_

MCTree  == {<<>>, <<a>>, <<a, b>>, <<b>>}
MCLower == [v \in {Cwd, Cdup, Pwd, Quit, Site, Stop, stor, type, chmod, list} |->
              CASE v = Cwd -> cwd_ [] v = Cdup -> cdup_ [] v = Pwd -> pwd_ [] v = Quit -> quit_
                [] v = Site -> site_ [] v = Stop -> stop_ [] v = stor -> stor_ [] v = type -> type_
                [] v = chmod -> chmod_ [] v = list -> list_]

Ask(verb, args) == [verb |-> verb, sub |-> None, args |-> args]

\* Relative and absolute paths, some of which lead nowhere.
PlainPaths == {<<a>>, <<b>>, <<a, Slash, b>>, <<Slash>>, <<Slash, a>>, <<Slash, b, Slash, a>>,
               <<Slash, a, Slash, b>>}

Moves    == {Ask(Cwd, p) : p \in PlainPaths \cup {None}} \cup {Ask(Cdup, None), Ask(Pwd, None)}
Others   == {Ask(stor, <<a>>), Ask(stor, None), Ask(type, <<a>>), Ask(list, None), Ask(Site, None),
              Ask(Quit, None)}
Sites    == {[verb |-> Site, sub |-> s, args |-> p] : s \in {chmod, stor, Stop}, p \in {None, <<a>>, <<a, Space, b>>}}
MCRequest == Moves \cup Others \cup Sites

\* For the instances in which the property fails.
SlashRequest == Moves \cup {Ask(Cwd, <<a, Slash>>)}
DotsRequest  == Moves \cup {Ask(Cwd, <<DotDot>>)}
BareRequest  == Moves \cup {Ask(type, None)}

\* The requests of the passing run are those the theorems speak of.
ASSUME Asked ==
  Request = MCRequest /\ Patient /\ Whole /\ BufSize > 8 =>
    Ordinary({Slash, DotDot, Space, CR, LF, a, b} \cup Verb \cup Range(Lower))

MCRegistered     == {stor, type}
MCUnasked        == {type}
MCRegisteredSite == {chmod}

==============================================================================
