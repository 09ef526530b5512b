------------------------------ MODULE MCBuild ------------------------------
(* Two sources, one of them f1x's; compiles by $(CC), by gcc and by ccache  *)
(* and a preprocessing (that what is no compiler leaves no entry shows the  *)
(* wrapper's own call); a plain user, one with a runtime header and a       *)
(* library path set, and one who runs f1x itself under bear.                *)
EXTENDS Build

MCPids == 1..3
MCSources == {"main.c", "util.c"}
MCProjectFiles == {"main.c"}
MCCommands == {[prog |-> "$CC", args |-> <<"-c", "-O", "main.c">>],
               [prog |-> "gcc", args |-> <<"-MF", "deps", "main.c", "util.c">>],
               [prog |-> "ccache", args |-> <<"gcc", "-c", "util.c">>],
               [prog |-> "gcc", args |-> <<"-E", "main.c">>]}
Plain == [v \in Vars |-> None]
MCUserEnvs == {Plain, [Plain EXCEPT !["F1X_RUNTIME_H"] = "user.h", !["LD_LIBRARY_PATH"] = "lib"],
               [Plain EXCEPT !["LD_PRELOAD"] = "libear", !["BEAR_OUTPUT"] = "outer"]}
=============================================================================
