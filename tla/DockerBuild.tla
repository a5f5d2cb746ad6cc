------------------------------ MODULE DockerBuild ------------------------------
(***************************************************************************)
(* DockerFileBuilderTask (src/src/tracer.h) with DockerFileBuilder           *)
(* (src/src/dockerfile.h): the layers of the Dockerfile, what they do when    *)
(* docker builds the image, and the run of the program in it.                *)
(*                                                                         *)
(* A directory of the image has an owner; the program can write where the    *)
(* user is that owner, as on the host.  Modes, and users or groups of the     *)
(* image that clash with those of the host, are left out.                    *)
(*                                                                         *)
(* R, and what R packages are compiled with, are files like others: they may  *)
(* be in the base image, come with Debian packages, be copied, or be missing.*)
(***************************************************************************)
EXTENDS Naturals, Sequences, FiniteSets

CONSTANTS
    Dir,        \* directories below /
    up,         \* up[d]: d and the directories above it
    Home,       \* the user's home directory
    BaseDirs,   \* the directories of the base image
    File,
    dir,        \* dir[f]: the directory of f
    R,          \* the file that is R
    Tools,      \* R, and the compilers and libraries that R packages are built with
    Brought,    \* what Debian packages may bring: sets of files
    Owners      \* what may own the directories of the host: functions from Dir

ASSUME DockerAssumption ==
    /\ up \in [Dir -> SUBSET Dir]
    /\ \A d \in Dir : d \in up[d] /\ \A e \in up[d] : up[e] \subseteq up[d]
    /\ Home \in Dir
    /\ BaseDirs \subseteq Dir
    /\ \A d \in BaseDirs : up[d] \subseteq BaseDirs
    /\ dir \in [File -> Dir]
    /\ R \in Tools /\ Tools \subseteq File
    /\ Brought \subseteq SUBSET File
    /\ Owners \subseteq [Dir -> {"root", "user"}]

VARIABLES
    hostOwner,  \* of the directories on the host
    ubuntu,     \* the base image has the user ubuntu
    baseTools,  \* which of the tools it has
    cwd,
    files,      \* the files to copy
    results,    \* those the program makes
    debs,       \* there are Debian packages to install
    packaged,   \* what they bring
    needed,     \* what R packages are installed with; nothing if there are none
    status,
    done,       \* the layers that are built
    owner,      \* of the image's directories
    origin,     \* where the image's files come from
    users,      \* of the image
    written     \* what the program has written

world == <<hostOwner, ubuntu, baseTools, cwd, files, results, debs, packaged, needed>>
fs == <<owner, origin>>
imageVars == <<world, status, done, fs, users, written>>

Layers == {"locale", "user", "debs", "R", "pre", "tar", "post", "environment", "command"}

ImageTypeOK ==
    /\ hostOwner \in Owners
    /\ ubuntu \in BOOLEAN
    /\ baseTools \subseteq Tools
    /\ cwd \in Dir
    /\ files \subseteq File /\ results \subseteq File
    /\ debs \in BOOLEAN
    /\ packaged \subseteq File
    /\ needed \subseteq Tools
    /\ status \in {"building", "built", "unavailable", "failed", "ran", "denied"}
    /\ done \in Seq(Layers)
    /\ owner \in [Dir -> {"none", "root", "user"}]
    /\ origin \in [File -> {"none", "base", "package", "host", "program"}]
    /\ users \subseteq {"ubuntu", "user"}
    /\ written \subseteq File

\* The program could write its results on the host. Nothing makes sure that R, or what the
\* packages need, is in the base image or in a Debian package: R may be a file to copy,
\* and a library may have no package on the host, or get lost when r4r asks for it.
ImageInit ==
    /\ hostOwner \in Owners
    /\ ubuntu \in BOOLEAN
    /\ baseTools \in SUBSET Tools
    /\ \A f \in baseTools : dir[f] \in BaseDirs
    /\ cwd \in Dir
    /\ files \in SUBSET File
    /\ results \in SUBSET (File \ (files \cup Tools))
    /\ \A f \in results : hostOwner[dir[f]] = "user"
    /\ hostOwner[Home] = "user"
    /\ debs \in BOOLEAN
    /\ packaged \in Brought
    /\ packaged # {} => debs
    /\ needed \in SUBSET Tools
    /\ needed # {} => R \in needed
    /\ status = "building"
    /\ done = <<>>
    /\ owner = [d \in Dir |-> IF d \in BaseDirs THEN "root" ELSE "none"]
    /\ origin = [f \in File |-> IF f \in baseTools THEN "base" ELSE "none"]
    /\ users = IF ubuntu THEN {"ubuntu"} ELSE {}
    /\ written = {}

-------------------------------------------------------------------------------
(* The Dockerfile *)

When(condition, layers) == IF condition THEN layers ELSE <<>>

\* Mutant: the directories of the results are not made.
MutantNoPre == When(files # {}, <<"tar", "post">>)

\* Nothing is added without a file to copy: not the directories of results either.
copy_files == When(files # {}, <<"pre", "tar", "post">>)

install_deb_packages == When(debs, <<"debs">>)
install_r_packages == When(needed # {}, <<"R">>)

\* Mutant: the R packages are installed before the Debian packages.
MutantRFirst ==
    <<"locale", "user">> \o install_r_packages \o install_deb_packages \o copy_files
        \o <<"environment", "command">>

\* Mutant: the files are copied before the packages are installed.
MutantCopiesFirst ==
    <<"locale", "user">> \o copy_files \o install_deb_packages \o install_r_packages
        \o <<"environment", "command">>

\* DockerFileBuilderTask::run
Dockerfile ==
    <<"locale", "user">> \o install_deb_packages \o install_r_packages \o copy_files
        \o <<"environment", "command">>

-------------------------------------------------------------------------------
(* docker build *)

\* mkdir -p, as root.
Mkdir(o, ds) ==
    [d \in Dir |-> IF o[d] = "none" /\ \E e \in ds : d \in up[e] THEN "root" ELSE o[d]]

\* The next layer is l.
Layer(l) ==
    /\ status = "building"
    /\ Len(done) < Len(Dockerfile)
    /\ Dockerfile[Len(done) + 1] = l
    /\ done' = Append(done, l)
    /\ UNCHANGED world

\* A RUN whose command fails ends the build.
RunLayer(succeeds) ==
    status' = IF ~succeeds THEN "failed"
              ELSE IF Len(done') = Len(Dockerfile) THEN "built" ELSE status

\* ENV and the installation of the locale.
set_lang_and_timezone == Layer("locale") /\ RunLayer(TRUE) /\ UNCHANGED <<fs, users, written>>

\* The first command is to remove the user ubuntu. All are joined with &&, so the
\* layer fails in an image without that user.
create_user ==
    /\ Layer("user")
    /\ RunLayer("ubuntu" \in users)
    /\ users' = {"user"}
    /\ owner' = [Mkdir(owner, {Home}) EXCEPT ![Home] = "user"]
    /\ UNCHANGED <<origin, written>>

\* A package brings its own version of a file, and directories that are root's.
InstallDebs ==
    /\ Layer("debs")
    /\ origin' = [f \in File |-> IF f \in packaged THEN "package" ELSE origin[f]]
    /\ owner' = Mkdir(owner, {dir[f] : f \in packaged})
    /\ RunLayer(TRUE)
    /\ UNCHANGED <<users, written>>

\* No server has what apt-get (for sudo, too), locale-gen or Rscript asks for, or a package
\* cannot be installed for reasons of its own.
Unavailable ==
    /\ \E l \in {"locale", "user", "debs", "R"} : Layer(l)
    /\ status' = "unavailable"
    /\ UNCHANGED <<fs, users, written>>

There(f) == origin[f] # "none"

\* Rscript runs the script of InstallPlan, which fails if a package is not there in the end.
InstallRPackages ==
    /\ Layer("R")
    /\ RunLayer(\A f \in needed : There(f))
    /\ UNCHANGED <<fs, users, written>>

\* pre_file_copy.sh makes the directories of the results.
generate_pre_file_copy_script ==
    /\ Layer("pre")
    /\ owner' = Mkdir(owner, {dir[f] : f \in results})
    /\ RunLayer(TRUE)
    /\ UNCHANGED <<origin, users, written>>

\* tar makes the directories it needs; they are not in the archive.
ExtractArchive ==
    /\ Layer("tar")
    /\ owner' = Mkdir(owner, {dir[f] : f \in files})
    /\ origin' = [f \in File |-> IF f \in files THEN "host" ELSE origin[f]]
    /\ RunLayer(TRUE)
    /\ UNCHANGED <<users, written>>

\* The directories of the files, and all above them.
Parents == UNION {up[dir[f]] : f \in files}

\* post_file_copy.sh gives them the owner they have on the host; chown fails for a
\* directory that is not there.
generate_post_file_copy_script ==
    /\ Layer("post")
    /\ RunLayer(\A d \in Parents : owner[d] # "none")
    /\ owner' = [d \in Dir |-> IF d \in Parents THEN hostOwner[d] ELSE owner[d]]
    /\ UNCHANGED <<origin, users, written>>

set_environment == Layer("environment") /\ RunLayer(TRUE) /\ UNCHANGED <<fs, users, written>>

\* Mutant: the working directory is made, and stays root's.
MutantNoChown(o) == Mkdir(o, {cwd})

\* The working directory becomes the user's; with R packages R makes their library.
WorkingDirectory(o) == [Mkdir(o, {cwd}) EXCEPT ![cwd] = "user"]

prepare_command ==
    /\ Layer("command")
    /\ RunLayer("user" \in users /\ (needed # {} => There(R)))
    /\ owner' = WorkingDirectory(owner)
    /\ UNCHANGED <<origin, users, written>>

-------------------------------------------------------------------------------
(* docker run *)

Writable(f) == owner[dir[f]] = "user"

\* The program reads its files and writes its results, as the user.
RunContainer ==
    /\ status = "built"
    /\ IF \A f \in results : Writable(f)
       THEN /\ status' = "ran"
            /\ written' = results
            /\ origin' = [f \in File |-> IF f \in results THEN "program" ELSE origin[f]]
       ELSE status' = "denied" /\ UNCHANGED <<written, origin>>
    /\ UNCHANGED <<world, done, owner, users>>

Build ==
    \/ set_lang_and_timezone \/ create_user \/ InstallDebs \/ InstallRPackages
    \/ generate_pre_file_copy_script \/ ExtractArchive \/ generate_post_file_copy_script
    \/ set_environment \/ prepare_command

ImageNext == Build \/ Unavailable \/ RunContainer

ImageSpec == ImageInit /\ [][ImageNext]_imageVars

-------------------------------------------------------------------------------
\* The build fails for two reasons: the base image has no user ubuntu; or something that
\* the R packages need, be it R itself, is neither in the base image nor among the Debian
\* packages. A copied R is no help, as it is unpacked later. All that the other layers
\* need is made by the ones before them (tracer.h:397, 479-484, 579, 613, 645).
BuildFailsForAReason ==
    status = "failed" =>
        \/ done[Len(done)] = "user" /\ ~ubuntu
        \/ done[Len(done)] = "R" /\ ~(needed \subseteq baseTools \cup packaged)

\* In an image that is built the directory of each result is there, unless no file is
\* copied: then the script that makes it is not run either (tracer.h:499, 512).
ResultsHavePlaces ==
    status = "built" /\ files # {} => \A f \in results : owner[dir[f]] # "none"

\* In the image a copied file is the one of the host, whatever the packages brought,
\* and each directory above it belongs to whom it belongs on the host, but for the
\* working directory, which is the user's (tracer.h:481, 551, 737).
FilesAsOnHost ==
    status = "built" =>
        /\ \A f \in files : origin[f] = "host"
        /\ \A d \in Parents \ {cwd} : owner[d] = hostOwner[d]

\* The program is denied a result only in a directory that has no copied file in it
\* or below it and is neither the working directory nor the home: such a directory
\* was made by root, or not at all, and nobody gives it to the user (tracer.h:499,
\* 512, 551).
DeniedOutsideOnly ==
    status = "denied" =>
        \E f \in results : dir[f] \notin Parents \cup {cwd, Home}
===============================================================================
