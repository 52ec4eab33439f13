SPECIFICATION GrantSpec
CONSTANTS
    Client = {cli}
    Tenant = {ten}
    TokenRequest = {p, q}
    MaxCodes = 1
CHECK_DEADLOCK FALSE
INVARIANT TokensNameTenant
