---------------------------- MODULE CommandTable ----------------------------
(***************************************************************************)
(* server/cmd.c over util/pt.c: struct FTPCommand, the table of commands   *)
(* and the table of SITE commands, each a tree with one level for each     *)
(* character of a name.  A node is [key, data, right, down]: right leads   *)
(* to the other characters possible at this place, down to the next place. *)
(* NULL is Nil for a node and Null for a table that malloc refused.        *)
(***************************************************************************)
EXTENDS Naturals, Sequences, FiniteSets

CONSTANTS Letter,     \* the characters of names
          Name,       \* the names registered as commands: sequences of letters
          SiteName,   \* the names registered as SITE commands
          Longest,    \* no name is longer, with its '\0'
          Callback,   \* the functions registered
          End,        \* the terminating '\0'
          Nil, Null,
          None        \* no callback

ASSUME NameAssumption ==
  /\ Name \cup SiteName \subseteq Seq(Letter) /\ IsFiniteSet(Name \cup SiteName)
  /\ Longest \in Nat /\ \A s \in Name \cup SiteName : Len(s) < Longest

ASSUME NoneIsNoCallback == None \notin Callback /\ End \notin Letter

\* A name that continues another one is stored in the other one's node.
Apart(T) ==
  \A s, t \in T : s # t /\ Len(s) <= Len(t) => SubSeq(t, 1, Len(s)) # s

ASSUME PrefixFree == \A T \in {Name, SiteName} : Apart(T)

\* The names that test/main.c and compat/libftp.c register are apart.
Registered ==
  {"ABOR", "ACCT", "ALLO", "APPE", "CDUP", "CWD", "DELE", "HELP", "LIST",
   "MKD", "MODE", "NLST", "NOOP", "PASS", "PASV", "PORT", "PWD", "QUIT",
   "REST", "RETR", "RMD", "RNFR", "RNTO", "SITE", "STAT", "STOR", "STRU",
   "SYST", "TYPE", "USER", "SIZE", "MDTM", "FEAT"}

RegisteredSite == {"CHMOD", "STOP", "WRITE"}

ASSUME RegisteredApart == Apart(Registered) /\ Apart(RegisteredSite)

VARIABLES commands,    \* command->commands, its root, or Null
          secondary,   \* command->secondary_commands
          pc,
          call, siteCall   \* the last calls for each, for the comparison with KeyMap

vars == <<commands, secondary, pc, call, siteCall>>

------------------------------------------------------------------------------
(* util/pt.c; z is what is left of a name, with its '\0' *)

Node(c, f, r, d) == [key |-> c, data |-> f, right |-> r, down |-> d]

WithData(n, f)  == [n EXCEPT !.data = f]
WithRight(n, r) == [n EXCEPT !.right = r]
WithDown(n, d)  == [n EXCEPT !.down = d]

\* Nodes over the trees in T: the end of a name has a callback, a letter has not.
NodesOver(T) ==
  [key : Letter, data : {None}, right : T, down : T]
    \cup [key : {End}, data : Callback, right : T, down : {Nil}]

\* The trees on at most d levels, counting steps to the right and down.
Trees[d \in Nat] == IF d = 0 THEN {Nil} ELSE LET T == Trees[d - 1] IN {Nil} \cup NodesOver(T)

\* The names that one table holds at most.  Each adds no more levels than it has
\* characters.
Most == IF Cardinality(SiteName) > Cardinality(Name) THEN Cardinality(SiteName) ELSE Cardinality(Name)

Tree == Trees[Most * Longest]

ASSUME NoNode == {Nil, Null} \cap NodesOver(Tree) = {} /\ Nil # Null

Rest == Seq(Letter \cup {End})

\* Mutant: the end of a stored name will do, as it does in ptnode_insert.
ptnode_search_shorter(t, s) ==
  LET at[n \in Tree] == [z \in Rest |->
        IF n = Nil THEN n
        ELSE IF n.key = End THEN n
        ELSE IF n.key # Head(z) THEN at[n.right][z] ELSE at[n.down][Tail(z)]]
  IN  at[t][s]

ptnode_search(t, s) ==
  LET at[n \in Tree] == [z \in Rest |->
        IF n = Nil THEN n
        ELSE IF n.key # Head(z) THEN at[n.right][z]
        ELSE IF Head(z) = End THEN n ELSE at[n.down][Tail(z)]]
  IN  at[t][s]

\* The nodes that ptnode_create makes for z, one below the other: behind a new
\* node there is nothing to the right and nothing below.
Created(z, f) ==
  LET from[i \in 0..(Len(z) - 1)] ==
        IF i = 0 THEN Node(End, f, Nil, Nil) ELSE Node(z[Len(z) - i], None, Nil, from[i - 1])
  IN  from[Len(z) - 1]

\* Mutant: the first name to come this far keeps the node.
ptnode_insert_first(t, s, f) ==
  LET inserted[n \in Tree] == [z \in Rest |->
        IF n = Nil THEN Created(z, f)
        ELSE IF n.key = End THEN n
        ELSE IF n.key # Head(z) THEN WithRight(n, inserted[n.right][z])
        ELSE WithDown(n, inserted[n.down][Tail(z)])]
  IN  inserted[t][s]

\* The first '\0' met takes the callback, whatever is left of the name.
ptnode_insert(t, s, f) ==
  LET inserted[n \in Tree] == [z \in Rest |->
        IF n = Nil THEN Created(z, f)
        ELSE IF n.key = End THEN WithData(n, f)
        ELSE IF n.key # Head(z) THEN WithRight(n, inserted[n.right][z])
        ELSE WithDown(n, inserted[n.down][Tail(z)])]
  IN  inserted[t][s]

pttree_insert(root, name, f) == ptnode_insert(root, Append(name, End), f)

pttree_search(root, name) == ptnode_search(root, Append(name, End))

\* The root is freed without a look whether there is one.
pttree_destroy_returns(root) == root \notin {Nil, Null}

------------------------------------------------------------------------------
(* server/cmd.c *)

Init ==
  /\ commands = Null /\ secondary = Null /\ pc = "new"
  /\ call = <<"create">> /\ siteCall = <<"create">>

ftpcmd_create ==
  /\ pc = "new" /\ pc' = "created"
  /\ commands' \in {Nil, Null} /\ secondary' \in {Nil, Null}
  /\ UNCHANGED <<call, siteCall>>

ftpcmd_register(name, f) ==
  /\ pc = "created" /\ commands # Null
  /\ commands' = pttree_insert(commands, name, f)
  /\ call' = <<"insert", name, f>>
  /\ UNCHANGED <<secondary, pc, siteCall>>

ftpcmd_register_site(name, f) ==
  /\ pc = "created" /\ secondary # Null
  /\ secondary' = pttree_insert(secondary, name, f)
  /\ siteCall' = <<"insert", name, f>>
  /\ UNCHANGED <<commands, pc, call>>

ftpcmd_destroy ==
  /\ pc = "created"
  /\ IF pttree_destroy_returns(commands) /\ pttree_destroy_returns(secondary)
     THEN pc' = "new" /\ commands' = Null /\ secondary' = Null
          /\ call' = <<"create">> /\ siteCall' = <<"create">>
     ELSE pc' = "crashed" /\ UNCHANGED <<commands, secondary, call, siteCall>>

Crashed == pc = "crashed" /\ UNCHANGED vars

Next ==
  \/ ftpcmd_create \/ ftpcmd_destroy \/ Crashed
  \/ \E n \in Name, f \in Callback : ftpcmd_register(n, f)
  \/ \E n \in SiteName, f \in Callback : ftpcmd_register_site(n, f)

Spec == Init /\ [][Next]_vars

\* The callback that ftpcmd_call calls for a name, None when it returns false.
ftpcmd_call(table, name) ==
  IF table = Null THEN None
  ELSE LET n == pttree_search(table, name) IN IF n = Nil THEN None ELSE n.data

------------------------------------------------------------------------------
Primary == INSTANCE KeyMap WITH Key <- Name, Value <- Callback,
                                map <- [n \in Name |-> ftpcmd_call(commands, n)]
Site    == INSTANCE KeyMap WITH Key <- SiteName, Value <- Callback,
                                map <- [n \in SiteName |-> ftpcmd_call(secondary, n)],
                                call <- siteCall

\* A command runs the function last registered for its name, whatever was
\* registered in between for names that share letters with it.
CommandsAreMap == Primary!SetSpec
SiteIsMap      == Site!SetSpec

\* A name nobody registered is answered with 502: ftpcmd_call returns false for
\* every proper prefix of a name, and for every name of the other table.
OnlyRegistered ==
  /\ \A n \in Name : \A k \in 0..(Len(n) - 1) : ftpcmd_call(commands, SubSeq(n, 1, k)) = None
  /\ \A n \in SiteName \ Name : ftpcmd_call(commands, n) = None
  /\ \A n \in Name \ SiteName : ftpcmd_call(secondary, n) = None

==============================================================================
