---------------------------- MODULE MCCompanies ----------------------------
EXTENDS Companies

CONSTANTS contractor, subcontractor

Tree == [c \in {contractor, subcontractor} |->
            IF c = contractor THEN Platform ELSE contractor]
=============================================================================
