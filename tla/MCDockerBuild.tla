----------------------------- MODULE MCDockerBuild -----------------------------
(***************************************************************************)
(* Instances of DockerBuild for TLC.                                       *)
(***************************************************************************)
EXTENDS DockerBuild, TLC

CONSTANTS opt, home, proj, out, libs, a, b, r

\* /opt, /home, /home/proj and /home/proj/out, with a home directory that has the
\* user's project in it.
Up == (opt :> {opt}) @@ (home :> {home}) @@ (proj :> {home, proj})
        @@ (out :> {home, proj, out})

\* R and the libraries in /opt, two files in the project, and one below it.
Place == (R :> opt) @@ (libs :> opt) @@ (a :> proj) @@ (b :> proj) @@ (r :> out)

\* Packages bring R, libraries, or a file that is in the project.
Packages == {{}, {R}, {libs}, {R, libs}, {b}}

\* /opt and /home are whose they should be.
AllOwners ==
    {o \in [{opt, home, proj, out} -> {"root", "user"}] : o[opt] = "root" /\ o[home] = "user"}
===============================================================================
