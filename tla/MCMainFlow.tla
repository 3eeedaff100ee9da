------------------------------- MODULE MCMainFlow -------------------------------
EXTENDS MainFlow, TLC

CONSTANTS term, int, client, server

Help == [name |-> "help", value |-> 1]
License == [name |-> "license", value |-> 1]
Variable == [name |-> "variable", value |-> 1]
Bad == [name |-> "?", value |-> 1]
Log(level) == [name |-> "log", value |-> level]

Env(help, license, log) == [help |-> help, license |-> license, log |-> log]
Quiet == Env(Unset, Unset, Unset)

\* Where the program serves: a setting from nowhere, from the environment, from an option, from
\* both, given twice, and given under the name that sets another one.
Served == {<<Quiet, <<>> >>,
           <<Env(Unset, Unset, "DEBUG"), <<>> >>,
           <<Quiet, <<Log("DEBUG"), Log("INFO")>> >>,
           <<Env(Unset, 1, "ERROR"), <<Log("INFO"), Log("DEBUG")>> >>,
           <<Env(Unset, 1, "DEBUG"), <<Log("INFO")>> >>,
           <<Env(Unset, Unset, "ERROR"), <<Variable>> >>}

\* Where it ends first, with every environment.
Lines == {<<License>>, <<Log("DEBUG"), Help>>, <<Help, Bad>>, <<Bad>>}
Ended == (Environment \X Lines) \cup ([help : {1}, license : {Unset, 1}, log : {Unset, "DEBUG"}]
                                        \X {<<>>, <<Log("INFO")>>, <<Variable>>})

AllStarts == Served \cup Ended

=============================================================================
