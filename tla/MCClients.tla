------------------------------ MODULE MCClients ------------------------------
\* The parts of Clients with the constants of MCClients.cfg.
EXTENDS Clients

\* Configs as others and the user write them: one field after the other departs from a
\* plain one, with the targets and profiles that the form rewrites.
To(shape, n) == [is |-> shape, name |-> n]
Plain ==
    [target |-> To("local", Nothing), profile |-> To("absent", Nothing), string |-> Nothing,
     object |-> Nothing, kept |-> Version]
SomeConfigs ==
    {Plain,
     [Plain EXCEPT !.target = To("bare", Version), !.kept = NoEntries],
     [Plain EXCEPT !.target = To("odd", Nothing), !.profile = To("bare", NoEntries)],
     [Plain EXCEPT !.target = To("profile", NoEntries), !.profile = To("bare", Version),
                   !.string = Odd, !.object = Version],
     [Plain EXCEPT !.target = To("absent", Nothing), !.string = NoEntries, !.object = Odd,
                   !.kept = Nothing]}
=============================================================================
