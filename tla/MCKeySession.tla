---------------------------- MODULE MCKeySession ----------------------------
(* Model checking of KeySession: two commands on one key file. *)
EXTENDS KeySession, TLC

\* A bundle of short options, the last of which may have its value behind it.
Bundle(letters) == Arg(1, letters)

file == Word("file")
SaveIt == Long("save-password")
ForgetIt == Long("forget-password")
PasswordFile == <<Long("password-file"), file>>
NewPasswordFile == <<Long("new-password-file"), file>>

\* Every action with every option that its handler reads, spelt in several ways.
Sessions ==
    {<<Short("K"), SaveIt>>, <<Bundle(<<"K", "W">>)>>, <<SaveIt, Short("W"), Short("K")>>,
     <<Short("K"), ForgetIt>>,
     <<Short("K"), Short("W")>> \o PasswordFile,
     <<Short("K"), SaveIt>> \o PasswordFile \o NewPasswordFile,
     <<Bundle(<<"S", "m">>), file, SaveIt>>, <<Bundle(<<"S", "m", "file">>), ForgetIt>>,
     <<Bundle(<<"S", "W", "m">>), file>>,
     <<SaveIt, file, Short("S")>> \o PasswordFile,
     <<SaveIt, Short("x"), file, Short("S"), file, file>>,
     <<Short("I"), SaveIt>>, <<Bundle(<<"I", "s", "file">>), SaveIt, Long("no-decrypt")>>,
     <<Short("I"), ForgetIt>>, <<Short("R"), ForgetIt>>,
     <<Short("G"), SaveIt>>, <<Bundle(<<"G", "f">>), SaveIt>>, <<Bundle(<<"G", "f", "W">>), SaveIt>>}

\* Refused by the parser or by a handler, or with nothing to do with the secret key.
Others ==
    {<<>>, <<file>>, <<Short("S")>>, <<Short("S"), Short("V"), file>>, <<Short("z")>>,
     <<Bundle(<<"G", "q", "Q">>)>>, <<Bundle(<<"R", "W">>)>>, <<Bundle(<<"S", "q", "q">>), file>>,
     <<Short("V"), file>> \o PasswordFile, <<Short("G")>> \o NewPasswordFile,
     <<Bundle(<<"K", "W">>)>> \o NewPasswordFile, <<Short("K")>> \o PasswordFile,
     <<file, Bundle(<<"S", "m">>)>>, <<Bundle(<<"S", "H", "l">>), file>>,
     <<Bundle(<<"V", "o">>), file, file>>, <<Bundle(<<"V", "q", "m", "file">>), file>>,
     <<Short("V"), file, file, Bundle(<<"x", "file">>)>>,
     <<Short("I"), Short("P"), file, ForgetIt>>, <<Bundle(<<"I", "p">>), file, ForgetIt>>,
     <<Bundle(<<"S", "x", "file">>), Bundle(<<"m", "file">>), SaveIt>>,
     <<Bundle(<<"I", "x", "W">>)>>,
     <<Short("S"), Arg(2, <<>>), file>>, <<Short("S"), Arg(1, <<>>)>>,
     <<Short("K"), Short("c"), Short("W")>>, <<Bundle(<<"S", "t">>), Short("l"), file>>}

AllCommandLines == Sessions \union Others

\* One that looks for a saved password.
OneCommandLine == {<<Short("K"), SaveIt>>}

Symmetries == Permutations(Procs) \union Permutations(Passwords)
=============================================================================
