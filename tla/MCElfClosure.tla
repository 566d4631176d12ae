----------------------------- MODULE MCElfClosure -----------------------------
(***************************************************************************)
(* An image with a program of each sort: "app" is linked with libssl,      *)
(* which brings libcrypto, whose engine brings libz; "su" brings libpam    *)
(* and with it PAM's module; "tool" lies on no PATH and needs a library    *)
(* that is not found; "init" and "bin" are static; libssl and libcrypto    *)
(* need each other.  There is a 32-bit libz in a directory that is         *)
(* searched first.                                                         *)
(***************************************************************************)
EXTENDS ElfClosure

MCOrder ==
  <<"addon", "app", "bin", "engine", "init", "ld", "libc", "libcrypto", "libpam", "libssl",
    "libuv", "libz", "libz32", "pam", "sh", "su", "tool">>
MCSonames == {"ld", "c", "crypto", "pam", "ssl", "uv", "z"}
MCDirs == {"opt", "lib32", "lib"}
MCDefaultDirs == <<"lib32", "lib">>

MCAt ==
  [d \in MCDirs |-> [s \in MCSonames |->
     CASE d = "lib32" /\ s = "z" -> "libz32"
       [] d = "lib" /\ s = "c" -> "libc" [] d = "lib" /\ s = "crypto" -> "libcrypto"
       [] d = "lib" /\ s = "pam" -> "libpam" [] d = "lib" /\ s = "ssl" -> "libssl"
       [] d = "lib" /\ s = "z" -> "libz" [] d = "lib" /\ s = "ld" -> "ld"
       [] OTHER -> None]]

Program(needed, interp) ==
  [needed |-> needed, rpath |-> <<>>, runpath |-> <<>>, interp |-> interp, abi |-> "64",
   program |-> TRUE, names |-> {}, soname |-> FALSE]
Library(name, needed) ==
  [needed |-> needed, rpath |-> <<>>, runpath |-> <<>>, interp |-> None, abi |-> "64",
   program |-> FALSE, names |-> name, soname |-> name # {}]

MCElf ==
  [o \in ToSet(MCOrder) |->
     CASE o = "app" -> [Program(<<"ssl", "c">>, "ld") EXCEPT !.rpath = <<"opt">>]
       [] o = "bin" -> Program(<<>>, None) [] o = "init" -> Program(<<>>, None)
       [] o = "sh" -> Program(<<"c">>, "ld")
       [] o = "su" -> Program(<<"pam", "c">>, "ld") [] o = "tool" -> Program(<<"uv">>, "ld")
       [] o = "addon" -> Library({}, <<"c">>) [] o = "engine" -> Library({}, <<"z", "crypto">>)
       [] o = "pam" -> Library({}, <<"pam">>) [] o = "ld" -> Library({"ld"}, <<>>)
       [] o = "libc" -> Library({"c"}, <<"ld">>) [] o = "libcrypto" -> Library({"crypto"}, <<"c", "ssl">>)
       [] o = "libpam" -> Library({"pam"}, <<"c">>) [] o = "libssl" -> Library({"ssl"}, <<"crypto", "c">>)
       [] o = "libuv" -> Library({"uv"}, <<"c">>) [] o = "libz" -> Library({"z"}, <<>>)
       [] o = "libz32" -> [Library({"z"}, <<>>) EXCEPT !.abi = "32"]]
MCInPath == {"sh", "su"}
MCWaitsFor ==
  [o \in ToSet(MCOrder) |-> CASE o = "addon" -> "any" [] o = "engine" -> "crypto"
                              [] o = "pam" -> "pam" [] OTHER -> ""]
MCLoads == [o \in ToSet(MCOrder) |-> CASE o = "libcrypto" -> "crypto" [] o = "libpam" -> "pam" [] OTHER -> ""]
MCPluginsOf == [o \in ToSet(MCOrder) |-> CASE o = "libcrypto" -> {"engine"} [] OTHER -> {}]
MCMentions == [o \in ToSet(MCOrder) |-> IF o = "bin" THEN {"su"} ELSE {}]

Token(kind, object) == [kind |-> kind, object |-> object]

\* The command lines: a program, through a wrapper or not, a shell, a wrapper
\* that is not understood or forwards to nothing, a script, nothing at all, and
\* overrides that replace one half.
Commands ==
  {[e |-> <<Token("command", "app")>>, c |-> <<>>, oe |-> None, oc |-> None],
   [e |-> <<Token("wrapper", "init")>>, c |-> <<Token("command", "bin")>>, oe |-> None, oc |-> None],
   [e |-> <<Token("shell", "sh")>>, c |-> <<>>, oe |-> None, oc |-> None],
   [e |-> <<Token("odd_wrapper", "init")>>, c |-> <<Token("command", "app")>>, oe |-> None, oc |-> None],
   [e |-> <<Token("wrapper", "init")>>, c |-> <<Token("command", "app")>>, oe |-> None, oc |-> <<>>],
   [e |-> <<Token("command", None)>>, c |-> <<>>, oe |-> None, oc |-> None],
   [e |-> <<>>, c |-> <<>>, oe |-> None, oc |-> None],
   [e |-> <<Token("shell", "sh")>>, c |-> <<>>, oe |-> <<Token("command", "su")>>, oc |-> None]}

\* "libcrypto.so" is the SONAME of libcrypto, "libgone" nothing's.
MCAnswers ==
  [n \in {"libc", "libcrypto", "libcrypto.so", "libgone"} |->
     CASE n = "libc" -> {"libc"} [] n \in {"libcrypto", "libcrypto.so"} -> {"libcrypto"}
       [] n = "libgone" -> {}]

Assertions ==
  {[d |-> FALSE, a |-> <<>>], [d |-> TRUE, a |-> <<>>], [d |-> FALSE, a |-> <<"libc">>],
   [d |-> FALSE, a |-> <<"libgone", "libcrypto">>],
   [d |-> FALSE, a |-> <<"libcrypto.so", "libc", "libcrypto">>]}

Scan(cl, roots, exec, a, dlopen, redirected, spawns) ==
  [entrypoint |-> cl.e, cmd |-> cl.c, overEntrypoint |-> cl.oe, overCmd |-> cl.oc,
   roots |-> roots, execAssumed |-> exec, dlopenAssumed |-> a.d, assumedFor |-> a.a,
   dlopen |-> dlopen, redirected |-> redirected,
   spawns |-> [o \in ToSet(MCOrder) |-> IF o \in {"bin", "app"} THEN spawns ELSE "unknown"],
   closed |-> IF spawns = "unknown" THEN {} ELSE {"bin"}, ldpath |-> <<>>]

\* What execution starts from, with libcrypto's loader; and what is asserted of
\* loaders, for a program and a shell.
MCScans ==
  {Scan(cl, roots, exec, [d |-> FALSE, a |-> <<>>], {"libcrypto"}, FALSE, spawns) :
     cl \in Commands, roots \in {<<>>, <<"tool">>, <<"bin", None>>}, exec \in BOOLEAN,
     spawns \in {"yes", "no", "unknown"}}
  \cup
  {Scan(cl, <<>>, TRUE, a, dlopen, redirected, "unknown") :
     cl \in {c \in Commands : c.e # <<>> /\ c.e[1].object \in {"app", "sh"}},
     a \in Assertions, dlopen \in {{}, {"libcrypto"}, {"libc", "libcrypto"}}, redirected \in BOOLEAN}

MCPackages ==
  {[objects |-> objects, archive |-> FALSE] :
     objects \in {{}, {"libz"}, {"libz32"}, {"libuv"}, {"libpam", "pam"}, {"addon"}, {"su"}, {"engine"}}}
  \cup {[objects |-> {"tool"}, archive |-> TRUE]}

MCSymbols ==
  {[usable |-> u, defined |-> d, importers |-> {"app"}, trust |-> TRUE, proof |-> p] :
     u \in BOOLEAN, d \in BOOLEAN, p \in {{}, {"bin"}}}

\* The image meets what the walk relies on: the runs reach what the theorem
\* about it says.
ASSUME MeetsPremises == RPathsAreOwn /\ OneFamily
=============================================================================
