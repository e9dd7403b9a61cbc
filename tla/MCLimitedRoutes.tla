-------------------------- MODULE MCLimitedRoutes --------------------------
(* An instance of LimitedRoutes for TLC.                                   *)
EXTENDS LimitedRoutes

Amount(phrase, n) == [phrase |-> phrase, isNumber |-> TRUE, number |-> n]
Words(phrase)     == [phrase |-> phrase, isNumber |-> FALSE, number |-> 0]

(* A small plan, a large one, and one with "Unlimited Backups" and two     *)
(* features of a kind.                                                     *)
Small == << Amount("Backups", 1), Amount("GB RAM", 2), Amount("Worlds", 3) >>
Legend == << Words("other"), Amount("CPU Cores", 2), Words(Upload), Amount("Backups", 2) >>
Odd == << Amount("Backups", 3), Words("Backups") >>

MCProducts == {Small, Legend, Odd}
MCSubscriptions == {<<Small>>, <<Legend>>, <<Odd>>, <<>>, <<Small, Legend>>}

Body(required, cpu, memory, backups, settings, modifiers) ==
    [required |-> required, CpuRequest |-> cpu, MemoryRequest |-> memory,
     BackupCount |-> backups, settings |-> settings, Modifiers |-> modifiers]

MCBodies == {
    Body(TRUE, {}, {}, {2}, {}, <<>>),
    Body(TRUE, {3}, {1}, {1}, {"own"}, << "valid", "badKey" >>),
    Body(TRUE, {}, {3}, {0}, {}, << "valid" >>),
    Body(TRUE, {}, {}, {}, {}, <<>>),
    Body(TRUE, {}, {}, {2}, {}, << "badValue" >>),
    Body(FALSE, {}, {}, {2}, {}, <<>>) }

Entry(ext, prefix, tooLarge) == [ext |-> ext, prefix |-> prefix, tooLarge |-> tooLarge]

(* The last has a harmless Name and the key of a world.                    *)
MCUploads == {
    <<>>,
    << Entry(".cfg", "other", FALSE), Entry(".db", "world", FALSE) >>,
    << Entry(".zip", "other", FALSE), Entry(".fwl", "world", FALSE) >>,
    << Entry(".zip", "other", TRUE) >>,
    << Entry("", "other", FALSE) >>,
    << Entry(".zip", "world", FALSE) >> }
=============================================================================
