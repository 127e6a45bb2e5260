----------------------------- MODULE MCRouting -----------------------------
(* Server blocks and file systems for TLC. *)
EXTENDS Routing

Plainly(path, root) ==
    [path |-> path, root |-> root, allow_methods |-> Methods, return_ |-> 0,
     upload_path |-> <<>>, cgi_extension |-> FALSE, interpreter |-> FALSE,
     index |-> <<"i">>, autoindex |-> FALSE]

Cgi(path, root, interpreter) ==
    [Plainly(path, root) EXCEPT !.cgi_extension = TRUE,
                                !.interpreter = interpreter,
                                !.index = <<"i", "s">>]

Block(listen, names, locations) ==
    [listen |-> listen, server_name |-> names, root |-> <<"w">>, index |-> <<"i">>,
     locations |-> locations]

MCServers == <<
    Block({"local"}, {"shop"},
          <<[Plainly(<<"">>, <<"w">>) EXCEPT !.autoindex = TRUE],
            Cgi(<<"c">>, <<"b">>, TRUE),
            Cgi(<<"c", "d">>, <<"b", "d">>, TRUE)>>),
    Block({"public"}, {"blog"},
          <<Cgi(<<"c", "d", "">>, <<"b">>, TRUE),
            Cgi(<<"c", "">>, <<"w">>, FALSE),
            [Plainly(<<"c">>, <<"b">>) EXCEPT !.return_ = 302]>>),
    Block({"local", "public"}, {AnyHost},
          <<[Plainly(<<"c">>, <<"b">>) EXCEPT !.upload_path = <<"b">>],
            [Cgi(<<"">>, <<"b", "d">>, TRUE) EXCEPT !.allow_methods = {"GET"}]>>)>>

MCDisks == {
    [files |-> files,
     dirs |-> {<<>>, <<"w">>, <<"b">>, <<"w", "d">>, <<"b", "d">>}]:
    files \in {{}, {<<"w", "i">>, <<"w", "d", "s">>}, {<<"b", "s">>},
               {<<"b", "d", "s">>}, {<<"w", "d", "s">>, <<"b", "s">>},
               {<<"w", "i">>, <<"w", "d", "s">>, <<"b", "s">>, <<"b", "d", "s">>}}}

\* They are among those for which the name of a script is proved to lead back.
ASSUME MCNamesKeepLocation == NamesKeepLocation
=============================================================================
