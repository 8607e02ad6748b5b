-------------------------- MODULE MCRequestModes --------------------------
(* RequestModes on a disk of a few sectors, with bios of a few shapes. *)
EXTENDS RequestModes, TLC

\* Bios of one segment, as a file system with small blocks submits them ...
OneSegment == {<<0, 1>>, <<0, 2>>}
\* ... and bios of two segments, of equal and of different lengths.
Equal   == {<<0, 1, 2>>, <<0, 2, 4>>}
Unequal == {<<0, 1, 3>>, <<0, 2, 3>>}

Config(d, m, shapes) == [driver |-> d, mode |-> m, shapes |-> shapes]

\* Every driver in every mode it has, on bios of one segment.
AnyMode ==
    {c \in {Config(d, m, OneSegment) : d \in Drivers, m \in Modes} :
        HasMode(c.driver, c.mode)}

\* The modes that keep segments apart, and on which bios.
SegmentsApart ==
    {Config(d, "RM_SIMPLE", {<<0, 1>>} \cup Equal \cup Unequal) : d \in Drivers}
        \cup
    {Config("sbull", m, OneSegment \cup Equal) : m \in {"RM_FULL", "RM_NOQUEUE"}}

\* The modes of each driver that go through the segments of a bio themselves.
Vector(d, shapes) == {Config(d, m, shapes) : m \in {"RM_FULL", "RM_NOQUEUE"}}
XdVector    == Vector("xd", Equal \cup Unequal)
SbullVector == Vector("sbull", Unequal)

\* The theorems about sound configurations are about these, and not about those.
ASSUME SoundConfigs ==
    /\ \A c \in AnyMode \cup SegmentsApart : Sound(c)
    /\ \A c \in XdVector \cup SbullVector : ~Sound(c)

BioSymmetry == Permutations(Bios)
=============================================================================
