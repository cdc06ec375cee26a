-------------------------- MODULE MCMissionPortfolio -------------------------
\* Small instances of MissionPortfolio for TLC.
EXTENDS MissionPortfolioProperties, TLC

Symmetry == Permutations(Handlers)

HandlersAndMissions == Permutations(Handlers) \cup Permutations(Missions)
==============================================================================
