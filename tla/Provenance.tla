----------------------------- MODULE Provenance -----------------------------
(***************************************************************************)
(* What native/src/cache.rs and native/src/publish.rs promise together:    *)
(* of every output there is on the phone it is known which files of        *)
(* Google's it was made from.  Knowledge comes before installation, and    *)
(* only grows; nothing is made from anything but Google's files, so what   *)
(* is installed is one patch of them and never a patch of a patch.         *)
(***************************************************************************)
CONSTANTS
    Nothing,        \* no output at all
    Google(_),      \* a directory holds the settings Google ships
    Unpatched(_),   \* so do the files of an output: there is nothing to know of it
    MadeFrom(_, _), \* an output is what one run makes of a directory
    Answers(_, _)   \* a directory is found to be a known output

VARIABLES
    known,          \* the outputs known, each with the stock it was made from
    installed,      \* the output of the module
    mounted         \* the output laid over /product

vars == <<known, installed, mounted>>

\* An installation of an older version may know less of its output than there is
\* in it, but enough to recognise it.
Init == /\ \A pair \in known : Google(pair.stock)
        /\ Unpatched(installed) \/ \E pair \in known : Answers(installed, pair.output)
        /\ mounted = Nothing

\* An output was made from Google's files.
Register == /\ \E pair \in known' : /\ Google(pair.stock)
                                    /\ MadeFrom(pair.output, pair.stock)
                                    /\ known' = known \cup {pair}
            /\ UNCHANGED <<installed, mounted>>

\* A known output takes the place of the one before, as a whole.
Install == /\ Unpatched(installed') \/ \E pair \in known : installed' = pair.output
           /\ UNCHANGED <<known, mounted>>

\* A boot mounts what is installed, a reboot ends that.
Mount   == mounted' = installed /\ UNCHANGED <<known, installed>>
Unmount == mounted' = Nothing   /\ UNCHANGED <<known, installed>>

Next == Register \/ Install \/ Mount \/ Unmount

Spec == Init /\ [][Next]_vars
=============================================================================
