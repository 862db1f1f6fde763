----------------------------- MODULE MCCmdLine ------------------------------
(* Command lines for CmdLine: options alone and in pairs, with values in,    *)
(* below and above their range, some of which would wrap into it; too few    *)
(* and too many arguments for every command.                                 *)
EXTENDS CmdLine

MCNumeral ==
    [token \in {"0", "1", "128", "129", "512", "65537", "100001", "-1"} |->
        CASE token = "0" -> 0
          [] token = "1" -> 1
          [] token = "128" -> 128
          [] token = "129" -> 129
          [] token = "512" -> 512
          [] token = "65537" -> 65537
          [] token = "100001" -> 100001
          [] token = "-1" -> 2000000000]

MCImageFiles == [f \in {"photo", "empty", "huge"} |->
                    CASE f = "photo" -> 7 [] f = "empty" -> 0 [] f = "huge" -> 100005]

Options ==
    {<<"-max_files", v>> : v \in {"0", "1", "100001", "-1"}}
    \cup {<<"-thumb_res", "1", v>> : v \in {"128", "129", "65537", "x"}}
    \cup {<<"-small_res", v, "1">> : v \in {"0", "512", "65537"}}
    \cup {<<"-max_files">>, <<"-thumb_res", "1">>, <<"-else">>}

Line(command, parts) == [command |-> command, parts |-> parts]

Creates ==
    {Line("create", <<>>), Line("create", <<<<"f">>>>)}
    \cup {Line("create", <<<<"f">>, o>>) : o \in Options}
    \cup {Line("create", <<<<"f">>, o, p>>) : o, p \in Options}

Others ==
    {Line(command, <<>>) : command \in {"nothing", "unknown", "help", "list"}}
    \cup {Line("list", <<<<"f">>>>), Line("list", <<<<"f">>, <<"f">>>>)}
    \cup {Line("delete", <<<<"f">>>>)}
    \cup {Line("delete", <<<<"f">>, <<id>>>>) : id \in {"pic", "", "too long"}}
    \cup {Line("read", <<<<"f">>>>), Line("read", <<<<"f">>, <<"pic">>>>)}
    \cup {Line("read", <<<<"f">>, <<"pic">>, <<res>>>>) : res \in {"small", "big"}}
    \cup {Line("insert", <<<<"f">>, <<"pic">>>>)}
    \cup {Line("insert", <<<<"f">>, <<"pic">>, <<file>>>>) :
             file \in {"photo", "empty", "huge", "missing"}}

MCLines == Creates \cup Others

=============================================================================
